---- MODULE Spec2Model ----
(***************************************************************************)
(* Model of the YaRISC execution core (yarisc/arch): instruction encoding, *)
(* the fetch-decode-execute step with its debug and strict policies, the   *)
(* assembler helpers for short addresses and the machine reset.            *)
(***************************************************************************)
EXTENDS Integers, Naturals, Sequences, FiniteSets, TLC

(***************************************************************************)
(* Word model (types.hpp)                                                  *)
(***************************************************************************)
WordModulus == 65536

Word == 0 .. (WordModulus - 1)

\* static_cast<word_t>(x)
ToWord(x) == x % WordModulus

num_registers == 8

RECURSIVE BitAnd(_, _)
\* a & b on unsigned integers: byte by byte, and bit by bit in a byte
BitAnd(a, b) ==
  IF a = 0 \/ b = 0 THEN 0
  ELSE IF a >= 256 \/ b >= 256
  THEN BitAnd(a % 256, b % 256) + 256 * BitAnd(a \div 256, b \div 256)
  ELSE LET bit(k) == ((a \div k) % 2) * ((b \div k) % 2) * k
       IN ((bit(1) + bit(2)) + (bit(4) + bit(8)))
            + ((bit(16) + bit(32)) + (bit(64) + bit(128)))

\* a | b on unsigned integers
BitOr(a, b) == a + b - BitAnd(a, b)

Pow2(n) == 2 ^ n

\* a >> n
ShiftRight(a, n) == a \div Pow2(n)

\* a << n (in int width, no truncation)
ShiftLeft(a, n) == a * Pow2(n)

(***************************************************************************)
(* Encoding tables (instructions.hpp)                                      *)
(***************************************************************************)
opcode_mask == 63
operand_mask == 65472
operand_op0_mask == 448
operand_op1_mask == 3584
operand_op2_mask == 28672
operand_sel_mask == 32768
operand_loc_mask == 16384
operand_as_mask == 8192
operand_st_mask == 7680
operand_imm_mask == BitOr(operand_loc_mask, operand_sel_mask)
operand_imm_unassigned_mask == 4096
operand_imm_invalid_mask == BitOr(operand_imm_mask, operand_imm_unassigned_mask)
operand_op0_offset == 6
operand_op1_offset == 9
operand_op2_offset == 12
operand_st_offset == 9
operand_as_offset == 13
operand_addr_mask == 32704
operand_addr_loc_mask == 32768
operand_cond_flag_mask == 192
operand_cond_flag_carry_mask == 64
operand_cond_flag_zero_mask == 128
operand_cond_unassigned_mask == 256
operand_cond_invalid_mask == operand_cond_unassigned_mask
operand_cond_addr_mask == 15872
operand_cond_neg_mask == 16384
operand_addr_offset == 6
operand_addr_word_offset == operand_addr_offset - 1
operand_cond_flag_offset == 6
operand_cond_addr_offset == 9
operand_cond_addr_word_offset == operand_cond_addr_offset - 1

op_move == 1
op_load == 2
op_relative_load == 3
op_store == 4
op_relative_store == 5
op_add == 16
op_add_with_carry == 17
op_jump == 42
op_relative_jump == 43
op_cond_jump == 44
op_relative_cond_jump == 45
op_noop == 62
op_halt == 63

\* feature_level.hpp
level_none == 0
level_min == 10
level_v1 == 100

\* registers.hpp, status_register
carry_flag == 1
zero_flag == 2

\* machine_profile.hpp, instruction_table: the opcodes with a descriptor
instruction_table ==
  [c \in 0 .. 63 |->
     CASE c = op_move -> [mnemonic |-> "MOV", level |-> level_min, type |-> "op0_op1"]
       [] c = op_load -> [mnemonic |-> "LDR", level |-> level_min, type |-> "op0_op1"]
       [] c = op_store -> [mnemonic |-> "STR", level |-> level_min, type |-> "op0_op1"]
       [] c = op_add -> [mnemonic |-> "ADD", level |-> level_min, type |-> "op0_op1_op2"]
       [] c = op_add_with_carry -> [mnemonic |-> "ADC", level |-> level_min, type |-> "op0_op1_op2"]
       [] c = op_jump -> [mnemonic |-> "JMP", level |-> level_v1, type |-> "jump"]
       [] c = op_cond_jump -> [mnemonic |-> "J", level |-> level_min, type |-> "cond_jump"]
       [] c = op_noop -> [mnemonic |-> "NOP", level |-> level_v1, type |-> "basic"]
       [] c = op_halt -> [mnemonic |-> "HLT", level |-> level_min, type |-> "basic"]
       [] OTHER -> [mnemonic |-> "", level |-> level_none, type |-> "basic"]]

instruction_type(code) == instruction_table[code].type

\* a slip that admits every opcode with a descriptor at every level
instruction_supported_at_any_level(code, level) == instruction_table[code].level # level_none

\* a slip that admits an opcode at the level of its descriptor only
instruction_supported_at_own_level(code, level) == instruction_table[code].level = level

instruction_supported(code, level) == instruction_table[code].level <= level

\* the case labels of the switch in execute_instruction
SwitchOpcodes ==
  {op_move, op_load, op_store, op_add, op_add_with_carry, op_jump, op_cond_jump, op_noop, op_halt}

(***************************************************************************)
(* Results and diagnostics (execution.hpp)                                 *)
(***************************************************************************)
continue_result == [keep_going |-> TRUE, breakpoint |-> FALSE]
halt_result == [keep_going |-> FALSE, breakpoint |-> FALSE]
breakpoint_result == [keep_going |-> FALSE, breakpoint |-> TRUE]

\* placeholder for "no result was returned" (an exception left the call)
NoResult == [keep_going |-> TRUE, breakpoint |-> TRUE]

\* the empty message string
NoMessage == [kind |-> "", a |-> 0, b |-> 0]

instruction_error(reg, instr) ==
  [kind |-> "Invalid instruction", a |-> instr, b |-> ToWord(reg[7] + WordModulus - 2)]

nonzero_error(instr, reason) ==
  [kind |-> "Invalid non-zero bits in instruction", a |-> instr, b |-> reason]

address_error(address, access) ==
  [kind |-> access, a |-> address, b |-> 0]

non_zero_no_operands == 0
non_zero_one_operand == 1
non_zero_reg_two_operands == 2
non_zero_st_two_operands == 3
non_zero_unassigned_three_operands == 4
non_zero_unassigned_cond_operands == 5
non_zero_jump_addr_operands == 6
assignment_two_operands == 7

(***************************************************************************)
(* Memory (memory.hpp, endianness.hpp): a sequence of bytes, the byte at   *)
(* offset k is mem[k + 1].  The machine is little-endian.                  *)
(***************************************************************************)
is_aligned(address) == address % 2 = 0

load_word(mem, address) == mem[address + 1] + 256 * mem[address + 2]

store_word(mem, address, value) ==
  [mem EXCEPT ![address + 1] = value % 256, ![address + 2] = value \div 256]

\* what a read outside the buffer may deliver
UndefinedBytes == {0, 255}

\* memory::load: defined for aligned addresses below the size; any other
\* address violates the assertions and reads whatever the raw buffer gives
memory_load(mem, address) ==
  IF address < Len(mem) /\ is_aligned(address)
  THEN {[kind |-> "value", val |-> load_word(mem, address), msg |-> NoMessage]}
  ELSE {[kind |-> "undefined", val |-> 0, msg |-> NoMessage]}
       \cup (IF address + 1 < Len(mem)
             THEN {[kind |-> "value", val |-> load_word(mem, address), msg |-> NoMessage]}
             ELSE {[kind |-> "value",
                    val |-> (IF address < Len(mem) THEN mem[address + 1] ELSE lo) + 256 * hi,
                    msg |-> NoMessage] : lo \in UndefinedBytes, hi \in UndefinedBytes})

\* memory::store: same domain as memory::load; a write outside the buffer
\* does not land in the buffer
memory_store(mem, address, value) ==
  IF address < Len(mem) /\ is_aligned(address)
  THEN {[kind |-> "stored", mem |-> store_word(mem, address, value), msg |-> NoMessage]}
  ELSE {[kind |-> "undefined", mem |-> mem, msg |-> NoMessage],
        [kind |-> "stored",
         mem |-> (IF address + 1 < Len(mem) THEN store_word(mem, address, value)
                  ELSE IF address < Len(mem) THEN [mem EXCEPT ![address + 1] = value % 256]
                  ELSE mem),
         msg |-> NoMessage]}

\* a slip that leaves the buffer as it is
memory_clear_nothing(mem) == mem

\* memory::clear
memory_clear(mem) == [k \in 1 .. Len(mem) |-> 0]

(***************************************************************************)
(* Execution policies.  cfg = [strict, dbg, level]: the strict policy is   *)
(* enabled by execution_mode::strict, the debug policy by an attached      *)
(* debugger.  A context c = [reg, status, mem, panic, message] is the      *)
(* machine data plus the debugger's panic flag and message.                *)
(***************************************************************************)
Returned(c, res) ==
  [reg |-> c.reg, status |-> c.status, mem |-> c.mem, panic |-> c.panic,
   message |-> c.message, res |-> res, exc |-> "none", what |-> NoMessage]

\* an exception leaves the call: "runtime_error" (throw_panic) or
\* "undefined" (undefined behaviour / failed assertion)
Raised(c, exc, msg) ==
  [reg |-> c.reg, status |-> c.status, mem |-> c.mem, panic |-> c.panic,
   message |-> c.message, res |-> NoResult, exc |-> exc, what |-> msg]

\* a slip that stores the message without raising the panic flag
store_panic_or_throw_message_only(c, msg) == [c EXCEPT !.message = msg]

\* debugger.cpp, store_panic_or_throw
store_panic_or_throw(c, msg) == [c EXCEPT !.panic = TRUE, !.message = msg]

\* execution_policy::panic over debug_execution_policy / noop_debug_execution_policy
policy_panic(cfg, c, msg) ==
  IF cfg.dbg THEN Returned(store_panic_or_throw(c, msg), breakpoint_result)
  ELSE Raised(c, "runtime_error", msg)

\* debug_execution_policy::has_panic / noop_debug_execution_policy::has_panic
has_panic(cfg, c) == cfg.dbg /\ c.panic

\* a slip that checks the bound and forgets the alignment
check_address_bound_only(mem, address) == address < Len(mem)

\* strict_execution_policy::check_address
check_address(mem, address) == is_aligned(address) /\ address < Len(mem)

\* execution_policy::load
policy_load(cfg, mem, address) ==
  IF cfg.strict /\ ~check_address(mem, address)
  THEN {[kind |-> "panic", val |-> 0, msg |-> address_error(address, "read")]}
  ELSE memory_load(mem, address)

\* a slip that stores without the strict check
policy_store_unchecked(cfg, mem, address, value) == memory_store(mem, address, value)

\* a slip that has the strict policy check the address and not store
policy_store_checked_only(cfg, mem, address, value) ==
  IF cfg.strict
  THEN IF ~check_address(mem, address)
       THEN {[kind |-> "panic", mem |-> mem, msg |-> address_error(address, "write")]}
       ELSE {[kind |-> "stored", mem |-> mem, msg |-> NoMessage]}
  ELSE memory_store(mem, address, value)

\* execution_policy::store (data_breakpoint is always false)
policy_store(cfg, mem, address, value) ==
  IF cfg.strict /\ ~check_address(mem, address)
  THEN {[kind |-> "panic", mem |-> mem, msg |-> address_error(address, "write")]}
  ELSE memory_store(mem, address, value)

\* outcome of a failed policy.load / policy.store
AccessFailed(cfg, c, l) ==
  IF l.kind = "panic" THEN policy_panic(cfg, c, l.msg) ELSE Raised(c, "undefined", NoMessage)

(***************************************************************************)
(* Opcode handlers (execution.hpp, exec_op).  i0 is the index of the       *)
(* register the reference op0 is bound to.  Each handler yields the set of *)
(* possible outcomes.                                                      *)
(***************************************************************************)
\* a slip that lets ADD take the carry in like ADC
alu_add_op_with_carry_in(op1, op2, carry) == op1 + op2 + carry

alu_add_op(op1, op2, carry) == op1 + op2

\* a slip that drops the carry in
alu_add_with_carry_op_dropped(op1, op2, carry) == op1 + op2

alu_add_with_carry_op(op1, op2, carry) == op1 + op2 + carry

\* a slip that shifts the carry two bits short
alu_status_carry_misplaced(result) ==
  BitOr(IF ToWord(result) = 0 THEN zero_flag ELSE 0,
        ToWord(ShiftRight(BitAnd(result, ShiftLeft(1, 16)), 14)))

\* the status word written by exec_alu_op for a double-word result
alu_status(result) ==
  BitOr(IF ToWord(result) = 0 THEN zero_flag ELSE 0,
        ToWord(ShiftRight(BitAnd(result, ShiftLeft(1, 16)), 16)))

\* exec_alu_op::execute once Op has delivered its double-word result
exec_alu_op(c, i0, result) ==
  {Returned([c EXCEPT !.status = alu_status(result), !.reg[i0] = ToWord(result)],
            continue_result)}

exec_add(c, i0, op1, op2) ==
  exec_alu_op(c, i0, alu_add_op(op1, op2, BitAnd(c.status, carry_flag)))

exec_add_with_carry(c, i0, op1, op2) ==
  exec_alu_op(c, i0, alu_add_with_carry_op(op1, op2, BitAnd(c.status, carry_flag)))

\* a slip that rebuilds the status from the zero test alone
move_status_clears_carry(status, op1) == IF op1 = 0 THEN zero_flag ELSE 0

\* (status & ~zero_flag) | (op1 == 0 ? zero_flag : 0)
move_status(status, op1) ==
  BitOr(status - BitAnd(status, zero_flag), IF op1 = 0 THEN zero_flag ELSE 0)

exec_move(c, i0, op1) ==
  {Returned([c EXCEPT !.reg[i0] = op1, !.status = move_status(c.status, op1)],
            continue_result)}

exec_load(cfg, c, i0, op1) ==
  {IF l.kind = "value" THEN Returned([c EXCEPT !.reg[i0] = l.val], continue_result)
   ELSE AccessFailed(cfg, c, l) : l \in policy_load(cfg, c.mem, op1)}

\* a slip that swaps the roles of op0 and op1
exec_store_swapped(cfg, c, i0, op1) ==
  {IF l.kind = "stored" THEN Returned([c EXCEPT !.mem = l.mem], continue_result)
   ELSE AccessFailed(cfg, c, l) : l \in policy_store(cfg, c.mem, c.reg[i0], op1)}

exec_store(cfg, c, i0, op1) ==
  {IF l.kind = "stored" THEN Returned([c EXCEPT !.mem = l.mem], continue_result)
   ELSE AccessFailed(cfg, c, l) : l \in policy_store(cfg, c.mem, op1, c.reg[i0])}

\* a slip that treats the address as relative to ip
exec_jump_relative(c, address) ==
  {Returned([c EXCEPT !.reg[7] = ToWord(c.reg[7] + address)], continue_result)}

exec_jump(c, address) ==
  {Returned([c EXCEPT !.reg[7] = ToWord(address)], continue_result)}

\* a slip that ignores the negate flag
cond_jump_taken_no_negate(status, flags, negate) == BitAnd(status, flags) # 0

\* if (!cond != !negate) set_ip(address)
cond_jump_taken(status, flags, negate) == (BitAnd(status, flags) # 0) # negate

exec_cond_jump(c, address, flags, negate) ==
  {Returned(IF cond_jump_taken(c.status, flags, negate)
            THEN [c EXCEPT !.reg[7] = ToWord(address)] ELSE c,
            continue_result)}

exec_noop(c) == {Returned(c, continue_result)}

\* a slip that lets execution go on after HLT
exec_halt_keeps_going(c) == {Returned(c, continue_result)}

exec_halt(c) == {Returned(c, halt_result)}

(***************************************************************************)
(* Operand decoding (execution.hpp, load_instruction .. execution_traits)  *)
(***************************************************************************)
\* a slip that forgets the post-increment of ip
load_instruction_no_advance(cfg, c) ==
  {[kind |-> l.kind, val |-> l.val, msg |-> l.msg, c |-> c] :
     l \in policy_load(cfg, c.mem, c.reg[7])}

\* a slip that advances ip only when the word could be loaded
load_instruction_advance_on_success(cfg, c) ==
  {[kind |-> l.kind, val |-> l.val, msg |-> l.msg,
    c |-> IF l.kind = "value" THEN [c EXCEPT !.reg[7] = ToWord(c.reg[7] + 2)] ELSE c] :
     l \in policy_load(cfg, c.mem, c.reg[7])}

\* fetch the word at ip, post-incrementing ip; yields fetches f with the
\* advanced context f.c
load_instruction(cfg, c) ==
  LET ip == c.reg[7]
      c1 == [c EXCEPT !.reg[7] = ToWord(ip + 2)]
  IN {[kind |-> l.kind, val |-> l.val, msg |-> l.msg, c |-> c1] :
        l \in policy_load(cfg, c.mem, ip)}

load_short_immediate(instr) == ToWord(ShiftRight(BitAnd(instr, operand_st_mask), operand_st_offset))

load_short_address(instr) ==
  ToWord(ShiftRight(BitAnd(instr, operand_addr_mask), operand_addr_word_offset))

load_short_cond_address(instr) ==
  ToWord(ShiftRight(BitAnd(instr, operand_cond_addr_mask), operand_cond_addr_word_offset))

\* index of the register named by op0 / op1 / op2
first_operand(instr) == ShiftRight(BitAnd(instr, operand_op0_mask), operand_op0_offset)

second_reg_operand(instr) == ShiftRight(BitAnd(instr, operand_op1_mask), operand_op1_offset)

third_reg_operand(instr) == ShiftRight(BitAnd(instr, operand_op2_mask), operand_op2_offset)

Fetched(c, val) == [kind |-> "value", val |-> val, msg |-> NoMessage, c |-> c]

second_operand(cfg, c, instr) ==
  IF BitAnd(instr, operand_sel_mask) # 0
  THEN IF BitAnd(instr, operand_loc_mask) # 0 THEN load_instruction(cfg, c)
       ELSE {Fetched(c, load_short_immediate(instr))}
  ELSE {Fetched(c, c.reg[second_reg_operand(instr)])}

\* yields fetches whose val is the pair <<op1, op2>>
second_third_operands(cfg, c, instr, op0) ==
  IF BitAnd(instr, operand_sel_mask) # 0
  THEN LET as == ShiftRight(BitAnd(instr, operand_as_mask), operand_as_offset)
           operands ==
             IF BitAnd(instr, operand_loc_mask) # 0
             THEN {[f EXCEPT !.val = <<f.val, f.c.reg[second_reg_operand(instr)]>>] :
                     f \in load_instruction(cfg, c)}
             ELSE {Fetched(c, <<load_short_immediate(instr), op0>>)}
       IN {[f EXCEPT !.val = <<f.val[as + 1], f.val[(1 - as) + 1]>>] : f \in operands}
  ELSE {Fetched(c, <<c.reg[second_reg_operand(instr)], c.reg[third_reg_operand(instr)]>>)}

jump_address_operand(cfg, c, instr) ==
  IF BitAnd(instr, operand_addr_loc_mask) # 0 THEN load_instruction(cfg, c)
  ELSE {Fetched(c, load_short_address(instr))}

\* a slip that leaves the address word of a conditional jump unfetched
cond_jump_address_operand_unfetched(cfg, c, instr) ==
  {Fetched(c, load_short_cond_address(instr))}

cond_jump_address_operand(cfg, c, instr) ==
  IF BitAnd(instr, operand_addr_loc_mask) # 0 THEN load_instruction(cfg, c)
  ELSE {Fetched(c, load_short_cond_address(instr))}

\* execution_traits<optype::basic>
traits_basic(code, c) == IF code = op_halt THEN exec_halt(c) ELSE exec_noop(c)

\* execution_traits<optype::op0_op1>
traits_op0_op1(code, cfg, c, instr) ==
  LET i0 == first_operand(instr)
  IN UNION {IF f.kind # "value" THEN {AccessFailed(cfg, f.c, f)}
            ELSE CASE code = op_move -> exec_move(f.c, i0, f.val)
                   [] code = op_load -> exec_load(cfg, f.c, i0, f.val)
                   [] OTHER -> exec_store(cfg, f.c, i0, f.val) :
            f \in second_operand(cfg, c, instr)}

\* execution_traits<optype::op0_op1_op2>
traits_op0_op1_op2(code, cfg, c, instr) ==
  LET i0 == first_operand(instr)
  IN UNION {IF f.kind # "value" THEN {AccessFailed(cfg, f.c, f)}
            ELSE IF code = op_add THEN exec_add(f.c, i0, f.val[1], f.val[2])
            ELSE exec_add_with_carry(f.c, i0, f.val[1], f.val[2]) :
            f \in second_third_operands(cfg, c, instr, c.reg[i0])}

\* execution_traits<optype::jump>
traits_jump(cfg, c, instr) ==
  UNION {IF f.kind # "value" THEN {AccessFailed(cfg, f.c, f)} ELSE exec_jump(f.c, f.val) :
         f \in jump_address_operand(cfg, c, instr)}

\* execution_traits<optype::cond_jump>
traits_cond_jump(cfg, c, instr) ==
  LET flags == ToWord(ShiftRight(BitAnd(instr, operand_cond_flag_mask), operand_cond_flag_offset))
      negate == BitAnd(instr, operand_cond_neg_mask) # 0
  IN UNION {IF f.kind # "value" THEN {AccessFailed(cfg, f.c, f)}
            ELSE exec_cond_jump(f.c, f.val, flags, negate) :
            f \in cond_jump_address_operand(cfg, c, instr)}

\* execute_opcode<Code>: the handler's outcomes, or a panic when the opcode
\* is not supported at the profile's level
execute_opcode(code, cfg, c, instr) ==
  IF instruction_supported(code, cfg.level)
  THEN CASE instruction_type(code) = "basic" -> traits_basic(code, c)
         [] instruction_type(code) = "op0_op1" -> traits_op0_op1(code, cfg, c, instr)
         [] instruction_type(code) = "op0_op1_op2" -> traits_op0_op1_op2(code, cfg, c, instr)
         [] instruction_type(code) = "jump" -> traits_jump(cfg, c, instr)
         [] OTHER -> traits_cond_jump(cfg, c, instr)
  ELSE {policy_panic(cfg, c, instruction_error(c.reg, instr))}

(***************************************************************************)
(* Reserved-bits audit and the step (execution.hpp, check and              *)
(* execute_instruction)                                                    *)
(***************************************************************************)
NoReason == -1

\* a slip that tests the reserved bit of a conditional jump first
audit_reason_unassigned_first(opt, instr) ==
  CASE opt = "basic" ->
         IF BitAnd(instr, operand_mask) # 0 THEN non_zero_no_operands ELSE NoReason
    [] opt = "op0" ->
         IF BitAnd(instr, BitOr(operand_op1_mask, operand_op2_mask)) # 0
         THEN non_zero_one_operand ELSE NoReason
    [] opt = "op0_op1" ->
         IF BitAnd(instr, operand_sel_mask) # 0
         THEN IF BitAnd(instr, operand_as_mask) # 0 THEN assignment_two_operands
              ELSE IF BitAnd(instr, operand_loc_mask) # 0 /\ BitAnd(instr, operand_st_mask) # 0
                   THEN non_zero_st_two_operands
              ELSE NoReason
         ELSE IF BitAnd(instr, operand_op2_mask) # 0 THEN non_zero_reg_two_operands
              ELSE NoReason
    [] opt = "op0_op1_op2" ->
         IF BitAnd(instr, operand_imm_invalid_mask) = operand_imm_invalid_mask
         THEN non_zero_unassigned_three_operands ELSE NoReason
    [] opt = "jump" ->
         IF BitAnd(instr, operand_addr_loc_mask) # 0 /\ BitAnd(instr, operand_addr_mask) # 0
         THEN non_zero_jump_addr_operands ELSE NoReason
    [] OTHER ->
         IF BitAnd(instr, operand_cond_invalid_mask) = operand_cond_invalid_mask
         THEN non_zero_unassigned_cond_operands
         ELSE IF BitAnd(instr, operand_addr_loc_mask) # 0
                   /\ BitAnd(instr, operand_cond_addr_mask) # 0
              THEN non_zero_jump_addr_operands
         ELSE NoReason

\* the switch of execution_policy::check: the reason code of the first
\* violated clause, NoReason when the word passes
audit_reason(opt, instr) ==
  CASE opt = "basic" ->
         IF BitAnd(instr, operand_mask) # 0 THEN non_zero_no_operands ELSE NoReason
    [] opt = "op0" ->
         IF BitAnd(instr, BitOr(operand_op1_mask, operand_op2_mask)) # 0
         THEN non_zero_one_operand ELSE NoReason
    [] opt = "op0_op1" ->
         IF BitAnd(instr, operand_sel_mask) # 0
         THEN IF BitAnd(instr, operand_as_mask) # 0 THEN assignment_two_operands
              ELSE IF BitAnd(instr, operand_loc_mask) # 0 /\ BitAnd(instr, operand_st_mask) # 0
                   THEN non_zero_st_two_operands
              ELSE NoReason
         ELSE IF BitAnd(instr, operand_op2_mask) # 0 THEN non_zero_reg_two_operands
              ELSE NoReason
    [] opt = "op0_op1_op2" ->
         IF BitAnd(instr, operand_imm_invalid_mask) = operand_imm_invalid_mask
         THEN non_zero_unassigned_three_operands ELSE NoReason
    [] opt = "jump" ->
         IF BitAnd(instr, operand_addr_loc_mask) # 0 /\ BitAnd(instr, operand_addr_mask) # 0
         THEN non_zero_jump_addr_operands ELSE NoReason
    [] OTHER ->
         IF BitAnd(instr, operand_addr_loc_mask) # 0 /\ BitAnd(instr, operand_cond_addr_mask) # 0
         THEN non_zero_jump_addr_operands
         ELSE IF BitAnd(instr, operand_cond_invalid_mask) = operand_cond_invalid_mask
              THEN non_zero_unassigned_cond_operands
         ELSE NoReason

\* the context part of an outcome
Context(o) ==
  [reg |-> o.reg, status |-> o.status, mem |-> o.mem, panic |-> o.panic, message |-> o.message]

\* a slip that has the strict policy reject stray status bits
check_validates_status(cfg, o, opt, instr) ==
  IF ~has_panic(cfg, o) /\ o.status >= 2 * zero_flag
  THEN policy_panic(cfg, Context(o), nonzero_error(o.status, NoReason))
  ELSE IF ~has_panic(cfg, o) /\ audit_reason(opt, instr) # NoReason
  THEN policy_panic(cfg, Context(o), nonzero_error(instr, audit_reason(opt, instr)))
  ELSE o

\* a slip that audits the word whether or not a panic is pending
check_despite_panic(cfg, o, opt, instr) ==
  IF audit_reason(opt, instr) # NoReason
  THEN policy_panic(cfg, Context(o), nonzero_error(instr, audit_reason(opt, instr)))
  ELSE o

\* execution_policy::check for the strict policy
check(cfg, o, opt, instr) ==
  IF ~has_panic(cfg, o) /\ audit_reason(opt, instr) # NoReason
  THEN policy_panic(cfg, Context(o), nonzero_error(instr, audit_reason(opt, instr)))
  ELSE o

\* a slip that audits the word before the handler runs
execute_instruction_audit_first(cfg, c) ==
  UNION {IF f.kind # "value" THEN {AccessFailed(cfg, f.c, f)}
         ELSE LET instr == f.val
                  code == BitAnd(instr, opcode_mask)
                  known == code \in SwitchOpcodes
                  opt == IF known THEN instruction_type(code) ELSE "basic"
                  fetched == Returned(f.c, continue_result)
                  audited == IF cfg.strict /\ known /\ instruction_supported(code, cfg.level)
                             THEN check(cfg, fetched, opt, instr) ELSE fetched
              IN IF audited # fetched THEN {audited}
                 ELSE IF known THEN execute_opcode(code, cfg, f.c, instr)
                 ELSE {policy_panic(cfg, f.c, instruction_error(f.c.reg, instr))} :
         f \in load_instruction(cfg, c)}

\* execute_instruction: the set of outcomes of one step from context c
execute_instruction(cfg, c) ==
  UNION {IF f.kind # "value" THEN {AccessFailed(cfg, f.c, f)}
         ELSE LET instr == f.val
                  code == BitAnd(instr, opcode_mask)
                  known == code \in SwitchOpcodes
                  outs == IF known THEN execute_opcode(code, cfg, f.c, instr)
                          ELSE {policy_panic(cfg, f.c, instruction_error(f.c.reg, instr))}
                  opt == IF known THEN instruction_type(code) ELSE "basic"
              IN {IF o.exc = "none" /\ cfg.strict THEN check(cfg, o, opt, instr) ELSE o :
                    o \in outs} :
         f \in load_instruction(cfg, c)}

(***************************************************************************)
(* The machine's run loops (machine.cpp, execute_func).  A run yields      *)
(* records r: the context it leaves, the results of the instructions it    *)
(* executed in order (log), what it returned (out) or raised (exc, what).  *)
(***************************************************************************)
RunReturned(c, log, out) ==
  [c |-> c, log |-> log, out |-> out, exc |-> "none", what |-> NoMessage]

RunRaised(o, log) ==
  [c |-> Context(o), log |-> log, out |-> <<>>, exc |-> o.exc, what |-> o.what]

\* a slip that reports a stop of any kind as a halt
halt_report_any_stop(result) == ~result.keep_going

\* return !result.breakpoint
halt_report(result) == ~result.breakpoint

\* return {!result.breakpoint && !result.keep_going, s}
steps_report(result, s) == <<~result.breakpoint /\ ~result.keep_going, s>>

\* instructions followed once a run has invoked undefined behaviour, the
\* instruction that invoked it included
MaxRun == 4

\* the instruction at context c violates an assertion of the memory (only
\* without the strict policy): what follows is any of the outcomes the raw
\* buffer gives
invokes_undefined(cfg, c) == \E o \in execute_instruction(cfg, c) : o.exc = "undefined"

RECURSIVE execute_to_halt(_, _, _, _, _)
\* while (result.keep_going) result = execute_instruction(...); the loop has
\* no bound: it is followed until an instruction stops or raises.  A defined
\* instruction is a function of the context it starts from, so a context
\* that comes back (seen) is a loop the call never leaves: it does not
\* return.  Once an instruction was undefined the run has the outcome
\* "undefined" and, besides, the continuations of at most MaxRun instructions
execute_to_halt(cfg, c, seen, fuel, log) ==
  IF fuel = 0 \/ (fuel = MaxRun /\ c \in seen) THEN {}
  ELSE LET left == IF fuel < MaxRun \/ invokes_undefined(cfg, c) THEN fuel - 1 ELSE fuel
       IN UNION {IF o.exc # "none" THEN {RunRaised(o, log)}
                 ELSE IF o.res.keep_going
                      THEN execute_to_halt(cfg, Context(o), seen \cup {c}, left,
                                           Append(log, o.res))
                 ELSE {RunReturned(Context(o), Append(log, o.res), halt_report(o.res))} :
                 o \in execute_instruction(cfg, c)}

RECURSIVE execute_steps_loop_one_more(_, _, _, _, _)
\* a slip that compares the budget with >= and executes one step more
execute_steps_loop_one_more(cfg, c, steps, s, log) ==
  UNION {IF o.exc # "none" THEN {RunRaised(o, log)}
         ELSE LET s1 == IF o.res.keep_going THEN s + 1 ELSE s
              IN IF o.res.keep_going /\ steps >= s1
                 THEN execute_steps_loop_one_more(cfg, Context(o), steps, s1, Append(log, o.res))
                 ELSE {RunReturned(Context(o), Append(log, o.res), steps_report(o.res, s1))} :
         o \in execute_instruction(cfg, c)}

RECURSIVE execute_steps_loop(_, _, _, _, _)
\* the body of while (compute): s is incremented only when the instruction
\* returned keep_going, by the short-circuit of
\* compute = result.keep_going && (steps > ++s)
execute_steps_loop(cfg, c, steps, s, log) ==
  UNION {IF o.exc # "none" THEN {RunRaised(o, log)}
         ELSE LET s1 == IF o.res.keep_going THEN s + 1 ELSE s
              IN IF o.res.keep_going /\ steps > s1
                 THEN execute_steps_loop(cfg, Context(o), steps, s1, Append(log, o.res))
                 ELSE {RunReturned(Context(o), Append(log, o.res), steps_report(o.res, s1))} :
         o \in execute_instruction(cfg, c)}

\* execute_func::operator()(policy, data, steps)
execute_steps(cfg, c, steps) ==
  IF steps > 0 THEN execute_steps_loop(cfg, c, steps, 0, <<>>)
  ELSE {RunReturned(c, <<>>, steps_report(continue_result, 0))}

(***************************************************************************)
(* Assembler (assembly.hpp)                                                *)
(***************************************************************************)
\* detail::sign_extend(value, sign_mask): the bits above the sign bit copy it
sign_extend(value, sign_mask) ==
  IF BitAnd(value, sign_mask) # 0
  THEN BitOr(value, (WordModulus - 1) - (2 * sign_mask - 1))
  ELSE value

\* a slip that checks the bits and forgets the sign
checked_immediate_check_unsigned(value, mask, sign_mask) ==
  BitAnd(value, BitOr(mask, sign_mask)) = value

\* checked_immediate<Mask, SignMask>::check
checked_immediate_check(value, mask, sign_mask) ==
  sign_extend(BitAnd(value, BitOr(mask, sign_mask)), sign_mask) = value

short_immediate_mask == 7
short_immediate_sign == 8
short_jump_address_mask == 510
short_jump_address_sign == 512
short_cond_jump_address_mask == 30
short_cond_jump_address_sign == 32

\* the values the constructors of the three short types accept
short_immediate == {v \in Word : checked_immediate_check(v, short_immediate_mask, short_immediate_sign)}

short_jump_address ==
  {v \in Word : checked_immediate_check(v, short_jump_address_mask, short_jump_address_sign)}

short_cond_jump_address ==
  {v \in Word : checked_immediate_check(v, short_cond_jump_address_mask, short_cond_jump_address_sign)}

make_op0(addr) == BitAnd(ShiftLeft(addr, operand_op0_offset), operand_op0_mask)

make_op1(addr) == BitAnd(ShiftLeft(addr, operand_op1_offset), operand_op1_mask)

make_op2(addr) == BitAnd(ShiftLeft(addr, operand_op2_offset), operand_op2_mask)

\* make_immediate(short_immediate)
make_immediate(imm) == BitAnd(ShiftLeft(imm, operand_st_offset), operand_st_mask)

\* make_immediate(short_jump_address)
make_immediate_jump(address) == BitAnd(ShiftLeft(address, operand_addr_offset), operand_addr_mask)

\* make_immediate(short_cond_jump_address)
make_immediate_cond_jump(address) ==
  BitAnd(ShiftLeft(address, operand_cond_addr_offset), operand_cond_addr_mask)

\* jump_condition
jc == operand_cond_flag_carry_mask
jz == operand_cond_flag_zero_mask
jnc == BitOr(operand_cond_flag_carry_mask, operand_cond_neg_mask)
jnz == BitOr(operand_cond_flag_zero_mask, operand_cond_neg_mask)

make_condition(cond) == BitAnd(cond, BitOr(operand_cond_neg_mask, operand_cond_flag_mask))

\* make_operands by operand shape
make_operands_reg(op0, op1) == BitOr(make_op0(op0), make_op1(op1))

\* a slip that marks the long immediate as the destination
make_operands_imm_assigned(op0) ==
  BitOr(BitOr(make_op0(op0), operand_imm_mask), operand_as_mask)

make_operands_imm(op0) == BitOr(make_op0(op0), operand_imm_mask)

make_operands_short(op0, op1) == BitOr(BitOr(make_op0(op0), make_immediate(op1)), operand_sel_mask)

make_operands_reg_reg(op0, op1, op2) == BitOr(BitOr(make_op0(op0), make_op1(op1)), make_op2(op2))

make_operands_imm_reg(op0, op2) == BitOr(BitOr(make_op0(op0), make_op1(op2)), operand_imm_mask)

make_operands_reg_imm(op0, op1) ==
  BitOr(BitOr(BitOr(make_op0(op0), make_op1(op1)), operand_as_mask), operand_imm_mask)

make_operands_short_acc(op0, op1) ==
  BitOr(BitOr(make_op0(op0), make_immediate(op1)), operand_sel_mask)

make_operands_acc_short(op0, op2) ==
  BitOr(BitOr(BitOr(make_op0(op0), make_immediate(op2)), operand_as_mask), operand_sel_mask)

make_jump_operands_imm == operand_addr_loc_mask

make_jump_operands_short(address) == make_immediate_jump(address)

make_cond_jump_operands_imm(cond) == BitOr(make_condition(cond), operand_addr_loc_mask)

make_cond_jump_operands_short(cond, address) ==
  BitOr(make_condition(cond), make_immediate_cond_jump(address))

\* assemble<Code>(...): the opcode or-ed with the operand bits
assemble(code, operands) == BitOr(code, operands)

(***************************************************************************)
(* Disassembler (assembly.cpp): the address printed for a short jump       *)
(***************************************************************************)
output_short_jump_address(instr) ==
  ToWord(ShiftRight(BitAnd(instr, operand_addr_mask), operand_addr_offset - 1))

output_short_cond_jump_address(instr) ==
  ToWord(ShiftRight(BitAnd(instr, operand_cond_addr_mask), operand_cond_addr_offset - 1))

\* reg_names
reg_names == <<"r0", "r1", "r2", "r3", "r4", "r5", "sp", "ip">>

HexDigits == <<"0", "1", "2", "3", "4", "5", "6", "7", "8", "9", "a", "b", "c", "d", "e", "f">>

RECURSIVE output_hex(_, _)
\* detail::output_hex: lower-case hexadecimal, zero-filled to the width
output_hex(value, width) ==
  IF value < 16
  THEN (IF width > 1 THEN output_hex(0, width - 1) ELSE "") \o HexDigits[value + 1]
  ELSE output_hex(value \div 16, width - 1) \o HexDigits[(value % 16) + 1]

\* values below ten are printed plainly, others in 1, 2 or 4 hex digits
output_immediate_impl(imm) ==
  IF imm < 10 THEN HexDigits[imm + 1]
  ELSE "0x" \o output_hex(imm, IF imm < 16 THEN 1 ELSE IF imm < 256 THEN 2 ELSE 4)

output_short_immediate(instr) ==
  output_immediate_impl(ToWord(ShiftRight(BitAnd(instr, operand_st_mask), operand_st_offset)))

output_address_impl(address) == "0x" \o output_hex(address, 4)

invalid_opcode_error(instr) ==
  [words |-> 0, text |-> "Invalid instruction 0x" \o output_hex(instr, 4)]

invalid_bits_error(instr) ==
  [words |-> 0, text |-> "Invalid non-zero bits in instruction 0x" \o output_hex(instr, 4)]

\* a slip that forgets the short immediate bits of a two operand word
\* with a long immediate
check_operands_short_bits_unchecked(opt, instr) ==
  CASE opt = "basic" -> BitAnd(instr, operand_mask) = 0
    [] opt = "op0" -> BitAnd(instr, BitOr(operand_op1_mask, operand_op2_mask)) = 0
    [] opt = "op0_op1" ->
         IF BitAnd(instr, operand_sel_mask) # 0
         THEN BitAnd(instr, operand_as_mask) = 0
         ELSE BitAnd(instr, operand_op2_mask) = 0
    [] opt = "op0_op1_op2" ->
         BitAnd(instr, operand_imm_invalid_mask) # operand_imm_invalid_mask
    [] opt = "jump" ->
         ~(BitAnd(instr, operand_addr_loc_mask) # 0 /\ BitAnd(instr, operand_addr_mask) # 0)
    [] OTHER ->
         /\ ~(BitAnd(instr, operand_addr_loc_mask) # 0 /\ BitAnd(instr, operand_cond_addr_mask) # 0)
         /\ BitAnd(instr, operand_cond_invalid_mask) # operand_cond_invalid_mask

\* check_no_operands .. check_cond_jump, by instruction type
check_operands(opt, instr) ==
  CASE opt = "basic" -> BitAnd(instr, operand_mask) = 0
    [] opt = "op0" -> BitAnd(instr, BitOr(operand_op1_mask, operand_op2_mask)) = 0
    [] opt = "op0_op1" ->
         IF BitAnd(instr, operand_sel_mask) # 0
         THEN /\ BitAnd(instr, operand_as_mask) = 0
              /\ ~(BitAnd(instr, operand_loc_mask) # 0 /\ BitAnd(instr, operand_st_mask) # 0)
         ELSE BitAnd(instr, operand_op2_mask) = 0
    [] opt = "op0_op1_op2" ->
         BitAnd(instr, operand_imm_invalid_mask) # operand_imm_invalid_mask
    [] opt = "jump" ->
         ~(BitAnd(instr, operand_addr_loc_mask) # 0 /\ BitAnd(instr, operand_addr_mask) # 0)
    [] OTHER ->
         /\ ~(BitAnd(instr, operand_addr_loc_mask) # 0 /\ BitAnd(instr, operand_cond_addr_mask) # 0)
         /\ BitAnd(instr, operand_cond_invalid_mask) # operand_cond_invalid_mask

convert_two_operands(mnemonic, instr, arg) ==
  LET head == mnemonic \o " " \o reg_names[first_operand(instr) + 1] \o ", "
  IN IF BitAnd(instr, operand_sel_mask) # 0
     THEN IF BitAnd(instr, operand_loc_mask) # 0
          THEN [words |-> 2, text |-> head \o output_immediate_impl(arg)]
          ELSE [words |-> 1, text |-> head \o output_short_immediate(instr)]
     ELSE [words |-> 1, text |-> head \o reg_names[second_reg_operand(instr) + 1]]

convert_three_operands(mnemonic, instr, arg) ==
  LET head == mnemonic \o " " \o reg_names[first_operand(instr) + 1] \o ", "
      long == BitAnd(instr, operand_loc_mask) # 0
      operands == IF long
                  THEN <<output_immediate_impl(arg), reg_names[second_reg_operand(instr) + 1]>>
                  ELSE <<output_short_immediate(instr), reg_names[first_operand(instr) + 1]>>
      as == ShiftRight(BitAnd(instr, operand_as_mask), operand_as_offset)
  IN IF BitAnd(instr, operand_sel_mask) # 0
     THEN [words |-> IF long THEN 2 ELSE 1,
           text |-> head \o operands[as + 1] \o ", " \o operands[(1 - as) + 1]]
     ELSE [words |-> 1,
           text |-> head \o reg_names[second_reg_operand(instr) + 1] \o ", "
                      \o reg_names[third_reg_operand(instr) + 1]]

convert_jump_operand(mnemonic, instr, arg) ==
  IF BitAnd(instr, operand_addr_loc_mask) # 0
  THEN [words |-> 2, text |-> mnemonic \o " " \o output_immediate_impl(arg)]
  ELSE [words |-> 1,
        text |-> mnemonic \o " " \o output_address_impl(output_short_jump_address(instr))]

convert_cond_jump_operand(mnemonic, instr, arg) ==
  LET head == mnemonic \o (IF BitAnd(instr, operand_cond_neg_mask) # 0 THEN "N" ELSE "M")
                \o (IF BitAnd(instr, operand_cond_flag_carry_mask) # 0 THEN "C" ELSE "")
                \o (IF BitAnd(instr, operand_cond_flag_zero_mask) # 0 THEN "Z" ELSE "")
                \o " "
  IN IF BitAnd(instr, operand_addr_loc_mask) # 0
     THEN [words |-> 2, text |-> head \o output_immediate_impl(arg)]
     ELSE [words |-> 1,
           text |-> head \o output_address_impl(output_short_cond_jump_address(instr))]

\* disassemble_opcode<Code, Profile> over disassemble_traits
disassemble_opcode(code, level, instr, arg) ==
  LET opt == instruction_type(code)
      mnemonic == instruction_table[code].mnemonic
  IN IF ~instruction_supported(code, level) THEN invalid_opcode_error(instr)
     ELSE IF ~check_operands(opt, instr) THEN invalid_bits_error(instr)
     ELSE CASE opt = "basic" -> [words |-> 1, text |-> mnemonic]
            [] opt = "op0_op1" -> convert_two_operands(mnemonic, instr, arg)
            [] opt = "op0_op1_op2" -> convert_three_operands(mnemonic, instr, arg)
            [] opt = "jump" -> convert_jump_operand(mnemonic, instr, arg)
            [] OTHER -> convert_cond_jump_operand(mnemonic, instr, arg)

\* disassemble(instr, arg, level)
disassemble(instr, arg, level) ==
  LET code == BitAnd(instr, opcode_mask)
  IN IF level \notin {level_min, level_v1}
     THEN [words |-> 0, text |-> "Invalid feature level " \o ToString(level)]
     ELSE IF code \in SwitchOpcodes THEN disassemble_opcode(code, level, instr, arg)
     ELSE invalid_opcode_error(instr)

(***************************************************************************)
(* Output (format.hpp, hex_word.hpp, status_bits.hpp, hex_registers.hpp,   *)
(* hex_memory.hpp).  A stream os = [text, dirty] is the text written so    *)
(* far and the colour context's dirty flag; ctx is TRUE for the colored    *)
(* context and FALSE for the plain one.  A projectable value is            *)
(* d = [diff, current, previous]: a plain value (diff = FALSE) or a        *)
(* diff<T>.                                                                *)
(***************************************************************************)
NewStream == [text |-> "", dirty |-> FALSE]

emit(os, s) == [os EXCEPT !.text = @ \o s]

\* what one part of the output writes is worked out on its own, from the
\* state the stream is in, and then added to the stream
part(os) == [text |-> "", dirty |-> os.dirty]

join(os, written) == [text |-> os.text \o written.text, dirty |-> written.dirty]

\* Where one output follows another, the stream the first one leaves is
\* bound before the second is applied: CHOOSE done \in {f(x) : x \in {e}} : TRUE
\* is f(e), with e worked out first.

\* color_always::put / color_never: the sequence, and the context is dirty
manip(os, ctx, sequence) == IF ctx THEN [text |-> os.text \o sequence, dirty |-> TRUE] ELSE os

\* color_reset::put: only a dirty context is reset
color_reset(os, ctx) ==
  IF ctx /\ os.dirty THEN [text |-> os.text \o "\\033[0m", dirty |-> FALSE] ELSE os

red == "\\033[31m"
white == "\\033[37m"
bright_red == "\\033[91m"
bright_white == "\\033[97m"
green_background == "\\033[42m"
yellow_background == "\\033[43m"
blue_background == "\\033[44m"
magenta_background == "\\033[45m"
cyan_background == "\\033[46m"
bright_blue_background == "\\033[104m"
bright_magenta_background == "\\033[105m"
bright_cyan_background == "\\033[106m"

as_value(v) == [diff |-> FALSE, current |-> v, previous |-> v]

as_diff(current, previous) == [diff |-> TRUE, current |-> current, previous |-> previous]

\* The text of a stream is written as a C string literal would be: a
\* backslash is "\\\\", the escape character is "\\033" and the grave accent
\* (which a string of this language cannot hold) is "\\x60".
\* the characters 32 .. 95 and 97 .. 126, which output_char_pred lets through
PrintableLow ==
  " !\"#$%&'()*+,-./0123456789:;<=>?@ABCDEFGHIJKLMNOPQRSTUVWXYZ[\\]^_"

PrintableHigh == "abcdefghijklmnopqrstuvwxyz{|}~"

\* output_char: the character, or a dot for one that is not printable
output_char(ch) ==
  CASE ch < 32 \/ ch > 126 -> "."
    [] ch = 92 -> "\\\\"
    [] ch = 96 -> "\\x60"
    [] ch < 96 -> SubSeq(PrintableLow, ch - 31, ch - 31)
    [] OTHER -> SubSeq(PrintableHigh, ch - 96, ch - 96)

RECURSIVE output_string(_)
\* output_string: every character through output_char
output_string(str) ==
  IF str = <<>> THEN "" ELSE output_char(Head(str)) \o output_string(Tail(str))

RECURSIVE bitset_to_string(_, _)
\* std::bitset<bits>{status}.to_string(): the highest bit first, eight bits
\* at a time
bitset_to_string(value, bits) ==
  IF bits > 8
  THEN bitset_to_string(value \div 256, bits - 8) \o bitset_to_string(value % 256, 8)
  ELSE LET bit(k) == IF (value \div k) % 2 = 1 THEN "1" ELSE "0"
       IN SubSeq(((bit(128) \o bit(64)) \o (bit(32) \o bit(16)))
                   \o ((bit(8) \o bit(4)) \o (bit(2) \o bit(1))), 9 - bits, 8)

carry_bit(s) == IF BitAnd(s, carry_flag) # 0 THEN "C" ELSE "0"

zero_bit(s) == IF BitAnd(s, zero_flag) # 0 THEN "Z" ELSE "0"

\* the put functions of hex_word, hex_word_as_bytes, status_bits and
\* string_format
put_value(kind, value, ctx, os) ==
  CASE kind = "hex_word" ->
         color_reset(emit(manip(os, ctx, bright_white), "0x" \o output_hex(value, 4)), ctx)
    [] kind = "hex_word_as_bytes" ->
         LET first == emit(manip(os, ctx, bright_white), output_hex(value[1], 2))
             second == emit(manip(emit(first, " "), ctx, white), output_hex(value[2], 2))
         IN color_reset(second, ctx)
    [] kind = "status_bits" ->
         IF BitAnd(value, (WordModulus - 1) - BitOr(carry_flag, zero_flag)) # 0
         THEN LET bits == SubSeq(bitset_to_string(value, 16), 1, 14) \o zero_bit(value)
                            \o carry_bit(value)
              IN color_reset(emit(manip(emit(os, "status: "), ctx, bright_white), "0b" \o bits),
                             ctx)
         ELSE color_reset(emit(manip(emit(os, "                status: "), ctx, bright_white),
                               zero_bit(value) \o carry_bit(value)), ctx)
    [] OTHER -> emit(os, output_string(value))

\* output_as_string: the plain output; a string is taken as it is
output_as_string(kind, value) ==
  IF kind = "string" THEN value ELSE put_value(kind, value, FALSE, NewStream).text

\* highlight_diff_only_v: status_bits declares it, strings have it
highlight_diff_only(kind) == kind \in {"status_bits", "string"}

\* one character of an output_as_string result, and its text
char_at(kind, str, i) == IF kind = "string" THEN str[i] ELSE SubSeq(str, i, i)

char_text(kind, ch) == IF kind = "string" THEN output_char(ch) ELSE ch

RECURSIVE format_diff_chars(_, _, _, _, _, _, _, _, _)
\* the loop of format_diff_impl over the characters i .. last, of which
\* there is one at least. What the loop does with a character depends on
\* the characters before it through previous_diff only, so more than one
\* character is written as the first half of them and then the second half
format_diff_chars(kind, current, previous, i, last, previous_diff, ctx, os, diff_only) ==
  IF i = last
  THEN emit(IF char_at(kind, current, i) # char_at(kind, previous, i)
            THEN (IF previous_diff = 1 THEN os ELSE manip(os, ctx, bright_red))
            ELSE IF previous_diff = 0 THEN os
            ELSE manip(os, ctx, IF diff_only THEN white ELSE red),
            char_text(kind, char_at(kind, current, i)))
  ELSE CHOOSE done \in
         {format_diff_chars(kind, current, previous, (i + last) \div 2 + 1, last,
                            IF char_at(kind, current, (i + last) \div 2)
                                 # char_at(kind, previous, (i + last) \div 2) THEN 1 ELSE 0,
                            ctx, written, diff_only) :
            written \in {format_diff_chars(kind, current, previous, i, (i + last) \div 2,
                                            previous_diff, ctx, os, diff_only)}} : TRUE

RECURSIVE text_from(_, _, _)
\* the characters of an output_as_string result from position i on
text_from(kind, str, i) ==
  IF i > Len(str) THEN "" ELSE char_text(kind, char_at(kind, str, i)) \o text_from(kind, str, i + 1)

\* os << ch: the character as it is; one that is not printable is written
\* as the literal writes it
raw_char(ch) ==
  IF ch >= 32 /\ ch <= 126 THEN output_char(ch)
  ELSE IF ch = 27 THEN "\\033"
  ELSE "\\x" \o output_hex(ch, 2)

RECURSIVE raw_string(_)
\* os << str: no character is replaced
raw_string(str) == IF str = <<>> THEN "" ELSE raw_char(Head(str)) \o raw_string(Tail(str))

\* os << current for an output_as_string result
raw_text(kind, str) == IF kind = "string" THEN raw_string(str) ELSE str

\* format_diff_impl: the characters both strings have go through output_char
\* one by one and the rest of current through output_string; with nothing to
\* compare with, current is written as it is
format_diff_impl(kind, current, previous, ctx, os, diff_only) ==
  LET size == Len(current)
      diff_size == IF Len(previous) < size THEN Len(previous) ELSE size
  IN IF size = 0 THEN os
     ELSE IF diff_size > 0
     THEN emit(color_reset(format_diff_chars(kind, current, previous, 1, diff_size, 0 - 1, ctx,
                                             os, diff_only), ctx),
               text_from(kind, current, diff_size + 1))
     ELSE color_reset(emit(manip(os, ctx, bright_red), raw_text(kind, current)), ctx)

\* a slip that compares the outputs even when the values are equal
format_diff_always_compares(kind, current, previous, ctx, os) ==
  format_diff_impl(kind, output_as_string(kind, current), output_as_string(kind, previous),
                   ctx, os, highlight_diff_only(kind))

\* format_diff: equal values are put as they are
format_diff(kind, current, previous, ctx, os) ==
  IF current = previous THEN put_value(kind, current, ctx, os)
  ELSE CHOOSE done \in {format_diff_impl(kind, current_str, previous_str, ctx, os,
                                          highlight_diff_only(kind)) :
                           current_str \in {output_as_string(kind, current)},
                           previous_str \in {output_as_string(kind, previous)}} : TRUE

\* format_proj: the diff with colours, the current value without
format_proj(kind, d, ctx, os) ==
  IF ctx THEN format_diff(kind, d.current, d.previous, ctx, os)
  ELSE put_value(kind, d.current, ctx, os)

\* bind_output_fn::put_impl: put for a value, format_proj for a diff
put_impl(kind, d, ctx, os) ==
  CHOOSE done \in {IF d.diff THEN format_proj(kind, d, ctx, stream)
                   ELSE put_value(kind, d.current, ctx, stream) : stream \in {os}} : TRUE

\* proj(&registers::rN, proj(&registers_view::named, reg))
proj_named(reg, i) ==
  [diff |-> reg.diff, current |-> reg.current.named[i], previous |-> reg.previous.named[i]]

\* proj(&status_register::s, proj(&registers_view::status, reg))
proj_status(reg) ==
  [diff |-> reg.diff, current |-> reg.current.status, previous |-> reg.previous.status]

\* a slip that reads the two words at ip and ip + 2 without the modulus
registers_view_unwrapped(r, s, m) ==
  IF Len(m) # 0 /\ is_aligned(r[7])
  THEN UNION {{[kind |-> IF w0.kind = "value" /\ w1.kind = "value" THEN "value"
                         ELSE "undefined",
                named |-> r, status |-> s, instruction |-> <<w0.val, w1.val>>] :
                 w1 \in memory_load(m, ToWord(r[7] + 2))} :
              w0 \in memory_load(m, r[7])}
  ELSE {[kind |-> "value", named |-> r, status |-> s, instruction |-> <<>>]}

\* registers_view(reg, mem): the registers, the status and, when ip is
\* aligned and the memory is not empty, the two words at ip and ip + 2
\* modulo the size; one view for every outcome of the two loads
registers_view(r, s, m) ==
  IF Len(m) # 0 /\ is_aligned(r[7])
  THEN UNION {{[kind |-> IF w0.kind = "value" /\ w1.kind = "value" THEN "value"
                         ELSE "undefined",
                named |-> r, status |-> s, instruction |-> <<w0.val, w1.val>>] :
                 w1 \in memory_load(m, ToWord((r[7] + 2) % Len(m)))} :
              w0 \in memory_load(m, ToWord(r[7] % Len(m)))}
  ELSE {[kind |-> "value", named |-> r, status |-> s, instruction |-> <<>>]}

RECURSIVE register_fields(_, _, _, _)
\* "r0: " .. "r5: " of the first line; none of them has a background colour
register_fields(reg, ctx, os, i) ==
  IF i > 5 THEN emit(os, "\n")
  ELSE LET value == put_impl("hex_word", proj_named(reg, i), ctx,
                             emit(part(os), "r" \o ToString(i) \o ": "))
       IN CHOOSE done \in {register_fields(reg, ctx, written, i + 1) :
                              written \in {join(os, IF i < 5 THEN emit(value, ", ")
                                                    ELSE value)}} : TRUE

space == "                              "

\* the disassembled current instruction, cut or filled to the width of space
current_instruction(instruction) ==
  LET result == disassemble(instruction[1], instruction[2], level_v1)
      text == "Next:     " \o result.text
  IN IF instruction = <<>> \/ result.words = 0 THEN space
     ELSE IF Len(text) > Len(space) THEN SubSeq(text, 1, Len(space))
     ELSE text \o SubSeq(space, Len(text) + 1, Len(space))

\* hex_registers_t::put: the first line, then the instruction and the
\* status, sp and ip, each written once what comes before it is written
hex_registers_put(reg, ctx, os) ==
  LET with_status(line) ==
        join(line, put_impl("status_bits", proj_status(reg), ctx,
                            emit(part(line), current_instruction(reg.current.instruction))))
      with_sp(status) ==
        join(status, put_impl("hex_word", proj_named(reg, 6), ctx,
                              manip(emit(part(status), ", sp: "), ctx, yellow_background)))
      with_ip(sp) ==
        join(sp, put_impl("hex_word", proj_named(reg, 7), ctx,
                          manip(emit(part(sp), ", ip: "), ctx, green_background)))
  IN CHOOSE done \in
       {emit(ip, "\n") :
          ip \in {with_ip(sp) :
            sp \in {with_sp(status) :
              status \in {with_status(line) :
                line \in {register_fields(reg, ctx, emit(os, "Register: "), 0)}}}}} : TRUE

\* format_output(hex_registers, ..): the colored context is reset at the end
format_registers(reg, ctx) == color_reset(hex_registers_put(reg, ctx, NewStream), ctx).text

\* memory_view: the bytes, the base address and the state used for colours
memory_view(data, base, state) == [data |-> data, base |-> base, state |-> state]

empty_view == memory_view(<<>>, 0, <<>>)

\* what memory_view::sub raises, by its text
ViewError(kind, text) ==
  [view |-> empty_view, exc |-> kind, what |-> [kind |-> text, a |-> 0, b |-> 0]]

\* memory_view::sub: an odd offset and an offset beyond the view raise; the
\* size is trimmed to the end of the view, and the constructor of the view
\* returned raises for an odd size
memory_view_sub(view, off, sz) ==
  LET max_sz == Len(view.data) - off
      n == IF sz > max_sz THEN max_sz ELSE sz
  IN IF ~is_aligned(off) THEN ViewError("invalid_argument", "unaligned memory view")
     ELSE IF off > Len(view.data) THEN ViewError("out_of_range", "memory out of range")
     ELSE IF ~is_aligned(n) THEN ViewError("invalid_argument", "unaligned memory view")
     ELSE [view |-> memory_view(SubSeq(view.data, off + 1, off + n), ToWord(view.base + off),
                                view.state),
           exc |-> "none", what |-> NoMessage]

\* hex_memory_t::adjust_previous: the part of previous that overlaps
\* current, or nothing when the overlap holds the same bytes
adjust_previous(current, previous) ==
  LET current_first == current.base
      current_last == current_first + Len(current.data)
      previous_first == previous.base
      previous_last == previous_first + Len(previous.data)
      overlap_first == IF current_first > previous_first THEN current_first ELSE previous_first
      overlap_last == IF current_last < previous_last THEN current_last ELSE previous_last
      current_offset == overlap_first - current_first
      previous_offset == overlap_first - previous_first
      overlap_size == overlap_last - overlap_first
  IN IF overlap_first < overlap_last
        /\ SubSeq(current.data, current_offset + 1, current_offset + overlap_size)
             # SubSeq(previous.data, previous_offset + 1, previous_offset + overlap_size)
     THEN memory_view_sub(previous, previous_offset, overlap_size).view
     ELSE empty_view

\* colors.hpp, register_background_colors: the sequence of each register
\* and whether it is used
register_background_colors ==
  [n \in 0 .. (num_registers - 1) |->
     CASE n = 0 -> [first |-> blue_background, second |-> FALSE]
       [] n = 1 -> [first |-> magenta_background, second |-> FALSE]
       [] n = 2 -> [first |-> cyan_background, second |-> FALSE]
       [] n = 3 -> [first |-> bright_blue_background, second |-> FALSE]
       [] n = 4 -> [first |-> bright_magenta_background, second |-> FALSE]
       [] n = 5 -> [first |-> bright_cyan_background, second |-> FALSE]
       [] n = 6 -> [first |-> yellow_background, second |-> TRUE]
       [] OTHER -> [first |-> green_background, second |-> TRUE]]

\* address_register_bgclr<N>: the colour is put when it is used and the
\* register holds the address
address_register_bgclr(n, address, state) ==
  register_background_colors[n].second /\ address = state[n]

\* a slip that tries the registers in their order, ip last
output_address_bgclr_in_order(os, ctx, address, state) ==
  LET hits == {n \in 0 .. (num_registers - 1) : address_register_bgclr(n, address, state)}
  IN IF hits = {} THEN os
     ELSE manip(os, ctx,
                register_background_colors[CHOOSE n \in hits : \A k \in hits : n <= k].first)

\* output_address_bgclr: ip is tried first, then r0 .. r5 and sp
output_address_bgclr(os, ctx, address, state) ==
  LET order == <<7, 0, 1, 2, 3, 4, 5, 6>>
      hits == {i \in 1 .. Len(order) : address_register_bgclr(order[i], address, state)}
  IN IF hits = {} THEN os
     ELSE manip(os, ctx,
                register_background_colors[
                  order[CHOOSE i \in hits : \A k \in hits : i <= k]].first)

\* output_word_as_bytes: the background of the address, when the view has
\* a state, then the two bytes
output_word_as_bytes(word, ctx, address, state, os) ==
  LET coloured == IF state = <<>> THEN os ELSE output_address_bgclr(os, ctx, address, state)
  IN emit(put_impl("hex_word_as_bytes", word, ctx, coloured), "  ")

RECURSIVE put_line_words(_, _, _, _, _)
\* the three loops of put_line: the words before, in and after the overlap
put_line_words(current, previous, i, ctx, os) ==
  IF i >= Len(current.data) THEN os
  ELSE LET previous_offset == previous.base - current.base
           inside == previous.data # <<>> /\ i >= previous_offset
                       /\ i < previous_offset + Len(previous.data)
           current_word == <<current.data[i + 1], current.data[i + 2]>>
           word == IF inside
                   THEN as_diff(current_word, <<previous.data[i - previous_offset + 1],
                                                previous.data[i - previous_offset + 2]>>)
                   ELSE as_value(current_word)
       IN CHOOSE done \in
            {put_line_words(current, previous, i + 2, ctx, written) :
               written \in {join(os, output_word_as_bytes(word, ctx, ToWord(current.base + i),
                                                          current.state, part(os)))}} : TRUE

\* hex_memory_t::put_line, for one line of current and what previous
\* overlaps of it
put_line(line, before, ctx, os) ==
  LET previous == IF before.data = <<>> THEN empty_view ELSE adjust_previous(line, before)
      previous_offset == previous.base - line.base
      previous_chars ==
        [k \in 1 .. Len(line.data) |->
           IF previous.data # <<>> /\ k > previous_offset
                /\ k <= previous_offset + Len(previous.data)
           THEN previous.data[k - previous_offset] ELSE line.data[k]]
      chars == IF previous.data = <<>> THEN as_value(line.data)
               ELSE as_diff(line.data, previous_chars)
  IN CHOOSE done \in
       {emit(join(words, put_impl("string", chars, ctx, part(words))), "\n") :
          words \in {put_line_words(line, before_line, 0, ctx, address) :
            before_line \in {previous},
            address \in {emit(os, "0x" \o output_hex(line.base, 4) \o ": ")}}} : TRUE

\* words in one line of hex_memory
hex_memory_width == 8

RECURSIVE put_lines(_, _, _, _)
\* hex_memory_t::put: line after line
put_lines(current, previous, ctx, os) ==
  IF current.data = <<>> THEN os
  ELSE LET n == IF Len(current.data) < 2 * hex_memory_width THEN Len(current.data)
                ELSE 2 * hex_memory_width
       IN CHOOSE done \in
            {put_lines(rest, previous, ctx, written) :
               rest \in {memory_view_sub(current, n, Len(current.data)).view},
               written \in {join(os, put_line(memory_view_sub(current, 0, n).view, previous,
                                              ctx, part(os)))}} : TRUE

\* hex_memory_t::put for a view and for a diff of views
hex_memory_put(mem, ctx, os) ==
  put_lines(mem.current,
            IF mem.diff /\ ctx THEN adjust_previous(mem.current, mem.previous) ELSE empty_view,
            ctx, os)

\* format_output(hex_memory, ..)
format_memory_view(mem, ctx) == color_reset(hex_memory_put(mem, ctx, NewStream), ctx).text

(***************************************************************************)
(* State: the machine data (reg, status, mem), the debugger (panic,        *)
(* message), the machine's configuration cfg, what the last call to        *)
(* execute_instruction returned (res) or raised (exc, what), the history   *)
(* of the calls made so far, the emulator's session, and `that`: the other *)
(* machine, which a swap or an assignment takes as its argument.           *)
(***************************************************************************)
VARIABLES reg, status, mem, panic, message, cfg, res, exc, what, trace, session, viewer, that

vars == <<reg, status, mem, panic, message, cfg, res, exc, what, trace, session, viewer, that>>

\* number of calls (execute or reset) in one behaviour
MaxSteps == 2

\* size of the main memory in words
MemWords == 8

MemSize == 2 * MemWords

Current == [reg |-> reg, status |-> status, mem |-> mem, panic |-> panic, message |-> message]

\* session::memory_debug_size_: bytes of the main memory the session
\* observes, from memory_debug_base_ = 0 on
memory_debug_size == 256

\* emulator.cpp, a session as constructed: not finished, the display not to
\* be cleared, no messages, the previous state and the previous memory zero
NewSession ==
  [finished |-> FALSE, clear_display |-> FALSE, message_displayed |-> FALSE,
   info_message |-> NoMessage, error_message |-> NoMessage, previous_steps |-> 0,
   previous_state |-> [reg |-> [i \in 0 .. (num_registers - 1) |-> 0], status |-> 0],
   previous_memory |-> [k \in 1 .. memory_debug_size |-> 0]]

\* a machine used without the emulator has no session and no viewer
NoSession == [finished |-> FALSE]

NoViewer == [at |-> "none"]

\* machine::machine(level) and machine::machine(dbg, level): the initial
\* state and a zeroed memory; a machine record carries the data, the panic
\* flag and the message of its debugger, its level, whether it has a debugger
\* and whether that debugger is the one this machine points to as well
new_machine(level, dbg) ==
  [reg |-> [i \in 0 .. (num_registers - 1) |-> 0], status |-> 0,
   mem |-> [k \in 1 .. MemSize |-> 0], panic |-> FALSE, message |-> NoMessage,
   level |-> level, dbg |-> dbg, shared |-> FALSE]

\* the other machine at the start: constructed at the minimum level without a
\* debugger, its memory 0x55 0xaa from an image of two bytes
OtherMachine ==
  [new_machine(level_min, FALSE) EXCEPT !.mem = [@ EXCEPT ![1] = 85, ![2] = 170]]

\* tests/machine.cpp, initial_registers (ip is set by the scenario)
initial_registers ==
  [i \in 0 .. (num_registers - 1) |->
     CASE i = 0 -> 43444 [] i = 1 -> 4466 [] i = 2 -> 12492 [] i = 3 -> 27877
       [] i = 4 -> 35795 [] i = 5 -> 61846 [] i = 6 -> 95 [] OTHER -> 42]

\* tests/machine.cpp, initial_memory: the bytes count up from zero
initial_memory == [k \in 1 .. MemSize |-> (k - 1) % 256]

\* tests/machine.cpp, machine::store: an odd offset throws, an offset beyond
\* the size returns false, both without effect; otherwise the word is stored
test_store(m, off, word) ==
  IF ~is_aligned(off)
  THEN [mem |-> m, ok |-> FALSE, exc |-> "runtime_error",
        what |-> [kind |-> "unaligned address in store", a |-> 0, b |-> 0]]
  ELSE IF off >= Len(m)
  THEN [mem |-> m, ok |-> FALSE, exc |-> "none", what |-> NoMessage]
  ELSE [mem |-> store_word(m, off, word), ok |-> TRUE, exc |-> "none", what |-> NoMessage]

RECURSIVE store_instruction(_, _, _)
\* tests/machine.cpp, store_instruction: the words of program p from ip on,
\* one machine::store each; the first store that throws ends the call
store_instruction(m, ip, p) ==
  IF p = <<>> THEN [mem |-> m, exc |-> "none", what |-> NoMessage]
  ELSE LET stored == test_store(m, ip, Head(p))
       IN IF stored.exc # "none"
          THEN [mem |-> stored.mem, exc |-> stored.exc, what |-> stored.what]
          ELSE store_instruction(stored.mem, ip + 2, Tail(p))

Configurations == [strict : BOOLEAN, dbg : BOOLEAN, level : {level_min, level_v1}]

\* a machine set up the way the test machine is: program p at ip, the
\* registers r, the status s and the data word stored at address d[1]; a
\* set-up whose store throws leaves no machine
InitMachine(Programs, Regs, Statuses, Ips, Data, Cfgs) ==
  \E p \in Programs, r \in Regs, s \in Statuses, ip \in Ips, d \in Data, cf \in Cfgs :
    /\ reg = [r EXCEPT ![7] = ip]
    /\ status = s
    /\ test_store(initial_memory, d[1], d[2]).exc = "none"
    /\ store_instruction(test_store(initial_memory, d[1], d[2]).mem, ip, p).exc = "none"
    /\ mem = store_instruction(test_store(initial_memory, d[1], d[2]).mem, ip, p).mem
    /\ panic = FALSE
    /\ message = NoMessage
    /\ cfg = cf
    /\ res = continue_result
    /\ exc = "none"
    /\ what = NoMessage
    /\ trace = <<>>
    /\ session = NoSession
    /\ viewer = NoViewer
    /\ that = OtherMachine

\* no data word: a store beyond the memory is ignored
NoData == {<<WordModulus, 0>>}

(***************************************************************************)
(* Actions                                                                 *)
(***************************************************************************)
\* one call of detail::execute_instruction(policy, registers, memory), the
\* policy made for the machine's mode, debugger and level
ExecuteInstruction ==
  /\ Len(trace) < MaxSteps
  /\ exc # "undefined"
  /\ \E o \in execute_instruction(cfg, Current) :
       /\ reg' = o.reg
       /\ status' = o.status
       /\ mem' = o.mem
       /\ panic' = o.panic
       /\ message' = o.message
       /\ res' = o.res
       /\ exc' = o.exc
       /\ what' = o.what
       /\ trace' = Append(trace, [act |-> "execute", pre |-> Current, res |-> o.res, exc |-> o.exc])
  /\ UNCHANGED <<cfg, session, viewer, that>>

\* the policy of the test machine: strict, its debugger, the latest level
TestPolicy == [strict |-> TRUE, dbg |-> TRUE, level |-> level_v1]

\* tests/machine.cpp, machine::execute_instruction: one step under the test
\* machine's policy; a panic held by the debugger afterwards is thrown with
\* the debugger's message, a breakpoint is thrown when asked for, otherwise
\* keep_going is returned
test_execute_instruction(c, throw_on_breakpoint) ==
  {IF o.exc # "none" THEN o
   ELSE IF o.panic THEN Raised(Context(o), "runtime_error", o.message)
   ELSE IF throw_on_breakpoint /\ o.res.breakpoint
        THEN Raised(Context(o), "runtime_error",
                    IF o.message # NoMessage THEN o.message
                    ELSE [kind |-> "breakpoint", a |-> 0, b |-> 0])
   ELSE Returned(Context(o), o.res) :
     o \in execute_instruction(TestPolicy, c)}

\* machine::execute_instruction of the test machine, which is a machine of
\* the test policy
TestExecuteInstruction ==
  /\ Len(trace) < MaxSteps
  /\ exc # "undefined"
  /\ cfg = TestPolicy
  /\ \E throw_on_breakpoint \in BOOLEAN :
       \E o \in test_execute_instruction(Current, throw_on_breakpoint) :
         /\ reg' = o.reg
         /\ status' = o.status
         /\ mem' = o.mem
         /\ panic' = o.panic
         /\ message' = o.message
         /\ res' = o.res
         /\ exc' = o.exc
         /\ what' = o.what
         /\ trace' = Append(trace, [act |-> "test_execute", arg |-> throw_on_breakpoint,
                                    pre |-> Current, res |-> o.res, exc |-> o.exc])
  /\ UNCHANGED <<cfg, session, viewer, that>>

\* machine::reset: machine_data::reset(debugger_.get())
Reset ==
  /\ Len(trace) < MaxSteps
  /\ exc # "undefined"
  /\ reg' = [i \in 0 .. (num_registers - 1) |-> 0]
  /\ status' = 0
  /\ mem' = memory_clear(mem)
  /\ trace' = Append(trace, [act |-> "reset", pre |-> Current, res |-> res, exc |-> exc])
  /\ UNCHANGED <<panic, message, cfg, res, exc, what, session, viewer, that>>

\* tests/machine.cpp, machine::load: an odd offset throws; the word at the
\* offset, 0xffff beyond the memory
test_load(m, off) ==
  IF ~is_aligned(off)
  THEN [val |-> 0, exc |-> "runtime_error",
        what |-> [kind |-> "unaligned address in load", a |-> 0, b |-> 0]]
  ELSE [val |-> IF off < Len(m) THEN load_word(m, off) ELSE WordModulus - 1,
        exc |-> "none", what |-> NoMessage]

\* arch::disassemble(instr, arg, level) on the word at an aligned ip and the
\* word after it, read the way tests/machine.cpp reads them, at the
\* machine's level
DisassembleInstruction ==
  /\ Len(trace) < MaxSteps
  /\ exc # "undefined"
  /\ is_aligned(reg[7])
  /\ trace' = Append(trace, [act |-> "disassemble", pre |-> Current, res |-> res, exc |-> exc,
                             out |-> disassemble(test_load(mem, reg[7]).val,
                                                 test_load(mem, reg[7] + 2).val, cfg.level)])
  /\ UNCHANGED <<reg, status, mem, panic, message, cfg, res, exc, what, session, viewer, that>>

\* the state a run leaves behind, and its entry in the history
RunDone(name, arg, r) ==
  /\ reg' = r.c.reg
  /\ status' = r.c.status
  /\ mem' = r.c.mem
  /\ panic' = r.c.panic
  /\ message' = r.c.message
  /\ res' = (IF r.exc # "none" THEN NoResult
             ELSE IF r.log = <<>> THEN res ELSE r.log[Len(r.log)])
  /\ exc' = r.exc
  /\ what' = r.what
  /\ trace' = Append(trace, [act |-> name, arg |-> arg, pre |-> Current, res |-> res',
                             exc |-> r.exc, out |-> r.out, log |-> r.log])
  /\ UNCHANGED <<cfg, session, viewer, that>>

\* largest step budget passed to machine::execute(steps, mode)
MaxBudget == 3

\* machine::execute(mode)
ExecuteToHalt ==
  /\ Len(trace) < MaxSteps
  /\ exc # "undefined"
  /\ \E r \in execute_to_halt(cfg, Current, {}, MaxRun, <<>>) : RunDone("run", 0, r)

\* machine::execute(steps, mode)
ExecuteSteps ==
  /\ Len(trace) < MaxSteps
  /\ exc # "undefined"
  /\ \E steps \in 0 .. MaxBudget :
       \E r \in execute_steps(cfg, Current, steps) : RunDone("steps", steps, r)

\* no image file at the path
NoFile == <<256>>

\* the error machine::load raises, by its text
LoadError(c, kind, text) ==
  [c |-> c, exc |-> kind, what |-> [kind |-> text, a |-> 0, b |-> 0]]

\* a slip that writes a zero-padded buffer of the memory's size
load_image_padded(c, image) ==
  IF image = NoFile THEN LoadError(c, "runtime_error", "could not open image file")
  ELSE IF Len(image) > Len(c.mem) THEN LoadError(c, "out_of_range", "the image file is too big")
  ELSE [c |-> [c EXCEPT !.mem = [k \in 1 .. Len(c.mem) |->
                                   IF k <= Len(image) THEN image[k] ELSE 0]],
        exc |-> "none", what |-> NoMessage]

\* machine::load(image): the file's bytes are copied to the start of the
\* main memory; a missing file and an image larger than the memory raise
load_image(c, image) ==
  IF image = NoFile THEN LoadError(c, "runtime_error", "could not open image file")
  ELSE IF Len(image) > Len(c.mem) THEN LoadError(c, "out_of_range", "the image file is too big")
  ELSE [c |-> [c EXCEPT !.mem = [k \in 1 .. Len(c.mem) |->
                                   IF k <= Len(image) THEN image[k] ELSE c.mem[k]]],
        exc |-> "none", what |-> NoMessage]

\* image files: every length up to two bytes more than the memory holds
ImageFiles ==
  {[k \in 1 .. n |-> (seed + 3 * k) % 256] : n \in 0 .. (MemSize + 2), seed \in {0, 200}}

\* machine::load on the machine
LoadImage ==
  /\ Len(trace) < MaxSteps
  /\ exc # "undefined"
  /\ \E image \in ImageFiles \cup {NoFile} :
       LET r == load_image(Current, image)
       IN /\ reg' = r.c.reg
          /\ status' = r.c.status
          /\ mem' = r.c.mem
          /\ exc' = r.exc
          /\ what' = r.what
          /\ trace' = Append(trace, [act |-> "load", arg |-> image, pre |-> Current,
                                     res |-> res, exc |-> r.exc])
  /\ UNCHANGED <<panic, message, cfg, res, session, viewer, that>>

(***************************************************************************)
(* Operations with another machine (machine.hpp): swap, copy assignment    *)
(* and move assignment.  Two machines may point to one debugger: that      *)
(* debugger's flag and message are then the ones of this machine.          *)
(***************************************************************************)
\* a machine record from a context, a level and a debugger
machine_of(c, level, dbg, shared) ==
  [reg |-> c.reg, status |-> c.status, mem |-> c.mem, panic |-> c.panic,
   message |-> c.message, level |-> level, dbg |-> dbg, shared |-> shared]

\* the other machine b as seen from machine a: a debugger they share has the
\* flag and the message a sees
seen_from(a, b) ==
  IF b.shared THEN [b EXCEPT !.panic = a.panic, !.message = a.message] ELSE b

\* machine::swap: data_, level_ and debugger_ are exchanged
machine_swap(a, b) == [this |-> seen_from(a, b), that |-> a]

\* the implicit copy assignment of machine: data_, level_ and debugger_ are
\* copied, so that both machines point to the debugger of b, if it has one
machine_copy_assign(a, b) ==
  [this |-> [seen_from(a, b) EXCEPT !.shared = b.dbg],
   that |-> [seen_from(a, b) EXCEPT !.shared = b.dbg]]

\* the implicit move assignment of machine: machine_data::operator=(&&)
\* leaves the initial state and memory(memory&&) an empty memory behind, the
\* moved debugger_ is null, level_ is copied
machine_move_assign(a, b) ==
  [this |-> [seen_from(a, b) EXCEPT !.shared = FALSE],
   that |-> [reg |-> [i \in 0 .. (num_registers - 1) |-> 0], status |-> 0, mem |-> <<>>,
            panic |-> FALSE, message |-> NoMessage, level |-> b.level, dbg |-> FALSE,
            shared |-> FALSE]]

\* this machine as a machine record
ThisMachine == machine_of(Current, cfg.level, cfg.dbg, that.shared)

\* this machine and the other one after an operation on the two
Exchanged(name, r) ==
  /\ reg' = r.this.reg
  /\ status' = r.this.status
  /\ mem' = r.this.mem
  /\ panic' = r.this.panic
  /\ message' = r.this.message
  /\ cfg' = [cfg EXCEPT !.level = r.this.level, !.dbg = r.this.dbg]
  /\ that' = r.that
  /\ trace' = Append(trace, [act |-> name, pre |-> Current, res |-> res, exc |-> exc,
                             before |-> [this |-> ThisMachine, that |-> that]])
  /\ UNCHANGED <<res, exc, what, session, viewer>>

\* machine::swap(that) and swap(lhs, rhs)
Swap ==
  /\ Len(trace) < MaxSteps
  /\ exc # "undefined"
  /\ Exchanged("swap", machine_swap(ThisMachine, that))

\* *this = that
Assign ==
  /\ Len(trace) < MaxSteps
  /\ exc # "undefined"
  /\ Exchanged("assign", machine_copy_assign(ThisMachine, that))

\* *this = std::move(that)
MoveAssign ==
  /\ Len(trace) < MaxSteps
  /\ exc # "undefined"
  /\ Exchanged("move", machine_move_assign(ThisMachine, that))

(***************************************************************************)
(* The interactive session (emu/emulator.cpp): the viewer displays the     *)
(* machine, waits for a command and reads it, the session executes and     *)
(* keeps the snapshot shown as previous.                                   *)
(***************************************************************************)
\* a message string that is a literal of the source
Text(t) == [kind |-> t, a |-> 0, b |-> 0]

finished_message == Text("Program has finished")

\* the message shown when the session has none
info_message == Text("Type 'h' for a list of commands")

help_message == "Commands: h: help, hh: more help, e: exit, r: reset, l <path>: load image"

more_help_message == "Commands: s: single step, x: execute"

\* session::display, for the session: the display is not cleared again and
\* the messages have been shown
session_display(s) == [s EXCEPT !.clear_display = FALSE, !.message_displayed = TRUE]

\* session::set_clear_display
set_clear_display(s) == [s EXCEPT !.clear_display = TRUE]

\* session::reset_messages
reset_messages(s) == [s EXCEPT !.info_message = NoMessage, !.error_message = NoMessage]

\* session::set_info_message
set_info_message(s, msg) == [s EXCEPT !.info_message = msg, !.message_displayed = FALSE]

\* session::set_error_message
set_error_message(s, msg) == [s EXCEPT !.error_message = msg, !.message_displayed = FALSE]

\* a slip that copies the registers and forgets the memory window
update_state_registers_only(s, c) ==
  [s EXCEPT !.previous_state = [reg |-> c.reg, status |-> c.status]]

\* session::update_state: the machine state and the observed window of the
\* main memory are copied
update_state(s, c) ==
  [s EXCEPT !.previous_state = [reg |-> c.reg, status |-> c.status],
            !.previous_memory = SubSeq(c.mem, 1, memory_debug_size)]

\* a slip that lets a finished session execute again
check_execute_always(s, c) == [ok |-> TRUE, s |-> update_state(reset_messages(s), c)]

\* session::check_execute
check_execute(s, c) ==
  IF s.finished THEN [ok |-> FALSE, s |-> [s EXCEPT !.error_message = finished_message]]
  ELSE [ok |-> TRUE, s |-> update_state(reset_messages(s), c)]

\* what a call of session::execute leaves: the session, the machine and the
\* debugger, the exception that left it, whether the machine was executed
\* and the results of the instructions
SessionDone(s, r, ran) ==
  [s |-> s, c |-> r.c, exc |-> r.exc, what |-> r.what, ran |-> ran, log |-> r.log]

\* finished_ and previous_steps_ after machine::execute returned
session_ran(s, cf, r, halted, steps) ==
  IF r.exc # "none" THEN SessionDone(s, r, TRUE)
  ELSE SessionDone([s EXCEPT !.finished = halted \/ (cf.dbg /\ r.c.panic),
                             !.previous_steps = steps], r, TRUE)

\* session::execute(m, mode, dbg)
session_execute(s, cf, c) ==
  LET checked == check_execute(s, c)
  IN IF checked.ok
     THEN {session_ran(checked.s, cf, r, r.out, 0) : r \in execute_to_halt(cf, c, {}, MaxRun, <<>>)}
     ELSE {SessionDone(checked.s, RunReturned(c, <<>>, FALSE), FALSE)}

\* session::execute(m, mode, dbg, steps)
session_execute_steps(s, cf, c, steps) ==
  IF steps > 0
  THEN LET checked == check_execute(s, c)
       IN IF checked.ok
          THEN {session_ran(checked.s, cf, r, r.out[1], r.out[2]) :
                  r \in execute_steps(cf, c, steps)}
          ELSE {SessionDone(checked.s, RunReturned(c, <<>>, FALSE), FALSE)}
  ELSE {SessionDone(s, RunReturned(c, <<>>, FALSE), FALSE)}

\* debugger::reset_message
reset_message(c) == [c EXCEPT !.message = NoMessage]

\* a slip that clears the message and leaves the panic flag
reset_panic_message_only(c) == reset_message(c)

\* debugger::reset_panic
reset_panic(c) == [reset_message(c) EXCEPT !.panic = FALSE]

\* session::update_messages: the session and the debugger after it
update_messages(s, c) ==
  IF s.message_displayed \/ (s.info_message = NoMessage /\ s.error_message = NoMessage)
  THEN LET taken ==
             IF c.panic THEN [s |-> [s EXCEPT !.error_message = c.message], c |-> c]
             ELSE IF s.info_message = NoMessage
             THEN [s |-> [s EXCEPT !.info_message = c.message], c |-> reset_message(c)]
             ELSE [s |-> s, c |-> c]
       IN IF taken.s.finished /\ taken.s.info_message = NoMessage
             /\ taken.s.error_message = NoMessage
          THEN [s |-> [taken.s EXCEPT !.info_message = finished_message], c |-> taken.c]
          ELSE taken
  ELSE [s |-> s, c |-> c]

\* machine::reset: machine_data::reset on the machine's data
machine_reset(c) ==
  [c EXCEPT !.reg = [i \in 0 .. (num_registers - 1) |-> 0], !.status = 0,
            !.mem = memory_clear(c.mem)]

\* store_debug_message(dbg, msg): without a debugger nothing is stored and
\* false is returned
store_debug_message(cf, c, msg) ==
  IF ~cf.dbg THEN [c |-> c, stored |-> FALSE]
  ELSE [c |-> [c EXCEPT !.message = msg], stored |-> TRUE]

\* the messages stored: a note, and the empty string
DebugMessages == {[kind |-> "note", a |-> 0, b |-> 0], NoMessage}

\* store_debug_message called with the machine's debugger
StoreDebugMessage ==
  /\ Len(trace) < MaxSteps
  /\ exc # "undefined"
  /\ \E msg \in DebugMessages :
       /\ message' = store_debug_message(cfg, Current, msg).c.message
       /\ panic' = store_debug_message(cfg, Current, msg).c.panic
       /\ trace' = Append(trace, [act |-> "store_message", arg |-> msg, pre |-> Current,
                                  res |-> res, exc |-> exc,
                                  out |-> store_debug_message(cfg, Current, msg).stored])
  /\ UNCHANGED <<reg, status, mem, cfg, res, exc, what, session, viewer, that>>

\* debugger::reset_message called on the machine's debugger
ResetMessage ==
  /\ Len(trace) < MaxSteps
  /\ exc # "undefined"
  /\ message' = reset_message(Current).message
  /\ panic' = reset_message(Current).panic
  /\ trace' = Append(trace, [act |-> "reset_message", pre |-> Current, res |-> res, exc |-> exc])
  /\ UNCHANGED <<reg, status, mem, cfg, res, exc, what, session, viewer, that>>

\* debugger::reset_panic called on the machine's debugger
ResetPanic ==
  /\ Len(trace) < MaxSteps
  /\ exc # "undefined"
  /\ message' = reset_panic(Current).message
  /\ panic' = reset_panic(Current).panic
  /\ trace' = Append(trace, [act |-> "reset_panic", pre |-> Current, res |-> res, exc |-> exc])
  /\ UNCHANGED <<reg, status, mem, cfg, res, exc, what, session, viewer, that>>

\* the three short types: value mask, sign mask and the instruction the
\* value is assembled into
ShortTypes == {"short_immediate", "short_jump_address", "short_cond_jump_address"}

short_type_mask(type) ==
  CASE type = "short_immediate" -> short_immediate_mask
    [] type = "short_jump_address" -> short_jump_address_mask
    [] OTHER -> short_cond_jump_address_mask

short_type_sign(type) ==
  CASE type = "short_immediate" -> short_immediate_sign
    [] type = "short_jump_address" -> short_jump_address_sign
    [] OTHER -> short_cond_jump_address_sign

\* checked_immediate<Mask, SignMask>::checked_immediate(imm): the value, or
\* detail::throw_invalid_immediate(imm, Mask | SignMask)
checked_immediate(type, imm) ==
  IF checked_immediate_check(imm, short_type_mask(type), short_type_sign(type))
  THEN [exc |-> "none", value |-> imm, what |-> NoMessage]
  ELSE [exc |-> "out_of_range", value |-> 0,
        what |-> [kind |-> "short immediate constant too large", a |-> imm,
                  b |-> BitOr(short_type_mask(type), short_type_sign(type))]]

\* the instruction assembled from a short value: MOV r2, v / JMP v / JMC v
assemble_short(type, value) ==
  CASE type = "short_immediate" -> assemble(op_move, make_operands_short(2, value))
    [] type = "short_jump_address" -> assemble(op_jump, make_jump_operands_short(value))
    [] OTHER -> assemble(op_cond_jump, make_cond_jump_operands_short(jc, value))

\* distance from the boundaries of the short ranges that is tried
ShortSpan == 3

ShortBoundaries ==
  {0, short_immediate_sign, 2 * short_immediate_sign, short_cond_jump_address_sign,
   2 * short_cond_jump_address_sign, short_jump_address_sign, 2 * short_jump_address_sign,
   WordModulus \div 2, WordModulus - 2 * short_jump_address_sign,
   WordModulus - short_jump_address_sign, WordModulus - 2 * short_cond_jump_address_sign,
   WordModulus - short_cond_jump_address_sign, WordModulus - 2 * short_immediate_sign,
   WordModulus - short_immediate_sign, WordModulus}

ShortValues == {b + d : b \in ShortBoundaries, d \in (0 - ShortSpan) .. ShortSpan} \cap Word

\* store_instruction(assemble<Code>(.., short_x{imm})): the short value is
\* constructed, assembled into an instruction and stored at ip
AssembleShort ==
  /\ Len(trace) < MaxSteps
  /\ exc # "undefined"
  /\ \E type \in ShortTypes, imm \in ShortValues :
       LET made == checked_immediate(type, imm)
           word == assemble_short(type, made.value)
           stored == IF made.exc = "none" THEN store_instruction(mem, reg[7], <<word>>)
                     ELSE [mem |-> mem, exc |-> made.exc, what |-> made.what]
       IN /\ mem' = stored.mem
          /\ exc' = stored.exc
          /\ what' = stored.what
          /\ trace' = Append(trace, [act |-> "assemble", arg |-> <<type, imm>>, pre |-> Current,
                                     res |-> res, exc |-> stored.exc,
                                     out |-> IF made.exc = "none" THEN <<word>> ELSE <<>>])
  /\ UNCHANGED <<reg, status, panic, message, cfg, res, session, viewer, that>>

\* the string a message stands for: the diagnostics of execution.hpp are kept
\* by their parts, every other message by its text
message_string(msg) ==
  CASE msg.kind = "Invalid instruction" ->
         "Invalid instruction 0x" \o output_hex(msg.a, 4) \o " at memory location 0x"
           \o output_hex(msg.b, 4)
    [] msg.kind = "Invalid non-zero bits in instruction" ->
         "Invalid non-zero bits in instruction 0x" \o output_hex(msg.a, 4) \o " (reason: "
           \o ToString(msg.b) \o ")"
    [] msg.kind \in {"read", "write"} ->
         "Invalid " \o msg.kind \o " access to address 0x" \o output_hex(msg.a, 4)
    [] OTHER -> msg.kind

line_width == 80

blank_line == "                                                                                "

\* output_message: the message cut to the width of a line and filled with
\* spaces, then a line feed
output_message(os, msg) ==
  LET trimmed == IF Len(msg) > line_width THEN SubSeq(msg, 1, line_width) ELSE msg
  IN emit(os, trimmed \o SubSeq(blank_line, 1, line_width - Len(trimmed)) \o "\n")

\* debugger_output_t::put: the registers as a diff against the previous ones
\* with ip and the instruction taken from the current ones, the memory as a
\* diff, and the error or the info message.  The two views are written with
\* os << as_diff(..), the console format: they are coloured when the console
\* supports colours, whatever the context of the message is
debugger_output_put(dbg, ctx, supported, os) ==
  LET previous_registers_except_ip ==
        [dbg.previous_registers EXCEPT !.named[7] = dbg.current_registers.named[7],
                                       !.instruction = dbg.current_registers.instruction]
      with_message(memory) ==
        IF dbg.error # ""
        THEN color_reset(output_message(manip(memory, ctx, bright_red), dbg.error), ctx)
        ELSE output_message(memory, dbg.info)
  IN CHOOSE done \in
       {with_message(emit(emit(os, registers \o "\n"), memory \o "\n")) :
          registers \in {format_registers(as_diff(dbg.current_registers,
                                                  previous_registers_except_ip), supported)},
          memory \in {format_memory_view(as_diff(dbg.current_memory, dbg.previous_memory),
                                         supported)}} : TRUE

\* format_output(debugger_output, ..) in a coloured (ctx) or a plain context,
\* on a console that supports colours or does not
format_debugger_view(dbg, ctx, supported) ==
  color_reset(debugger_output_put(dbg, ctx, supported, NewStream), ctx).text

\* reset_cursor(ctx, clear_screen) << reset(ctx)
reset_cursor(ctx, clear_screen) ==
  color_reset(manip(NewStream, ctx, IF clear_screen THEN "\\033[H\\033[2J" ELSE "\\033[H"),
              ctx).text

\* what session::display writes for session s and machine c: the observed
\* window of the memory from address 0, against the snapshot the session
\* keeps.  The context is the dynamic one and the view is written with
\* oss << view: both are coloured when the console supports colours.
session_display_text(s, c, current_registers, supported) ==
  LET current_memory ==
        memory_view_sub(memory_view(c.mem, 0, c.reg), 0, memory_debug_size).view
      previous_registers == [kind |-> "value", named |-> s.previous_state.reg,
                             status |-> s.previous_state.status, instruction |-> <<>>]
      previous_memory == memory_view(s.previous_memory, 0, s.previous_state.reg)
      info == IF s.info_message = NoMessage /\ s.error_message = NoMessage THEN info_message
              ELSE s.info_message
      view == [current_registers |-> current_registers, current_memory |-> current_memory,
               previous_registers |-> previous_registers, previous_memory |-> previous_memory,
               info |-> message_string(info), error |-> message_string(s.error_message)]
  IN reset_cursor(supported, s.clear_display) \o format_debugger_view(view, supported, supported)

\* number of commands in one session
MaxCommands == 3

\* the emulator's viewer as constructed (viewer::already_clear_ is true):
\* where it is in viewer::execute, whether the console supports colours
\* (utils::color::supported(), fixed for the process) and what its last step
\* wrote to std::cout
NewViewer(supported) ==
  [at |-> "constructed", already_clear |-> TRUE, supported |-> supported, written |-> ""]

\* viewer::execute(m, mode) is entered: the first display clears the screen
Enter ==
  /\ viewer.at = "constructed"
  /\ session' = set_clear_display(session)
  /\ viewer' = [viewer EXCEPT !.at = "display"]
  /\ UNCHANGED <<reg, status, mem, panic, message, cfg, res, exc, what, trace, that>>

\* user_prompt, the prompt written before the command is read
prompt == "$ "

\* session::display(m, ctx, dbg) in the loop of viewer::execute: the text is
\* written and the messages count as displayed.  In the loop user_prompt
\* follows, writes the prompt and waits in std::getline for the command;
\* after the command to exit the viewer returns (true).  The session is
\* followed up to its last command.
Display ==
  /\ viewer.at \in {"display", "leaving"}
  /\ Len(trace) < MaxCommands
  /\ exc = "none"
  /\ \E current_registers \in {w \in registers_view(reg, status, mem) : w.kind = "value"} :
       \E written \in {session_display_text(session, Current, current_registers,
                                             viewer.supported)} :
         viewer' = IF viewer.at = "display"
                   THEN [viewer EXCEPT !.at = "getline", !.written = written \o "\n" \o prompt]
                   ELSE [viewer EXCEPT !.at = "returned", !.written = written]
  /\ session' = session_display(session)
  /\ UNCHANGED <<reg, status, mem, panic, message, cfg, res, exc, what, trace, that>>

\* the argument of viewer::reset_machine: no path (reset), or the path of
\* the load command, which is empty after "l "
NoPath == [given |-> FALSE, path |-> ""]

ImagePath(path) == [given |-> TRUE, path |-> path]

\* the files of the session: the image of a program at one path, nothing
\* that can be opened at any other
SessionImagePath == "a.img"

\* the bytes of the image file of program p: every word low byte first
image_of(p) ==
  [k \in 1 .. (2 * Len(p)) |->
     IF k % 2 = 1 THEN p[(k + 1) \div 2] % 256 ELSE p[k \div 2] \div 256]

SessionImage ==
  image_of(<<assemble(op_move, make_operands_short(2, 5)), assemble(op_halt, 0)>>)

file_at(path) == IF path = SessionImagePath THEN SessionImage ELSE NoFile

\* viewer::reset_machine: a new session, the machine reset, the panic
\* cleared, and the image loaded
reset_machine(c, image) ==
  LET cleared == reset_panic(machine_reset(c))
  IN IF image.given
     THEN IF image.path # ""
          THEN LET loaded == load_image(cleared, file_at(image.path))
                   caught == IF loaded.exc = "none" THEN NewSession
                             ELSE set_error_message(NewSession, Text("Error: " \o loaded.what.kind))
               IN [s |-> set_info_message(update_state(caught, loaded.c),
                                          Text("Image " \o image.path \o " loaded successfully")),
                   c |-> loaded.c]
          ELSE [s |-> set_error_message(NewSession, Text("No image file given")), c |-> cleared]
     ELSE [s |-> set_info_message(NewSession, Text("Reset to initial state")), c |-> cleared]

\* the steps a command asks for: a number, or none for a run to the end
Steps(n) == [given |-> TRUE, value |-> n]

NoSteps == [given |-> FALSE, value |-> 0]

\* std::string::starts_with
starts_with(line, prefix) ==
  Len(line) >= Len(prefix) /\ SubSeq(line, 1, Len(prefix)) = prefix

\* viewer::user_prompt once std::getline has returned the command: the
\* session, the machine and already_clear_ it leaves, what it writes over the
\* line of the command, and the pair (exit, steps) it returns
user_prompt(s, v, c, command) ==
  LET prompted == reset_messages(s)
      overwrites == command # "" /\ v.supported /\ Len(command) < 60
      cleared == IF (command = "" /\ v.already_clear) \/ overwrites THEN prompted
                 ELSE set_clear_display(prompted)
      left(session_after, machine, exit, steps) ==
        [s |-> session_after, c |-> machine, exit |-> exit, steps |-> steps,
         already_clear |-> ~overwrites,
         written |-> IF overwrites
                     THEN "\\033[A" \o prompt \o SubSeq(blank_line, 1, Len(command)) \o "\n"
                     ELSE ""]
  IN CASE command = "" -> left(cleared, c, FALSE, Steps(0))
       [] command = "h" ->
            left(set_info_message(cleared, Text(help_message)), c, FALSE, Steps(0))
       [] command = "hh" ->
            left(set_info_message(cleared, Text(more_help_message)), c, FALSE, Steps(0))
       [] command = "e" -> left(cleared, c, TRUE, Steps(0))
       [] command = "s" -> left(cleared, c, FALSE, Steps(1))
       [] command = "x" -> left(cleared, c, FALSE, NoSteps)
       [] command = "r" ->
            left(reset_machine(c, NoPath).s, reset_machine(c, NoPath).c, FALSE, Steps(0))
       [] command = "l" ->
            left(set_error_message(cleared,
                                   Text("Load command expects an image file path: l path/to/image")),
                 c, FALSE, Steps(0))
       [] starts_with(command, "l ") ->
            LET image == ImagePath(SubSeq(command, 3, Len(command)))
            IN left(reset_machine(c, image).s, reset_machine(c, image).c, FALSE, Steps(0))
       [] OTHER -> left(set_error_message(cleared, Text("Unknown command: " \o command)),
                        c, FALSE, Steps(0))

\* the commands tried: the empty line, the two helps, exit, step, run,
\* reset, load without a path, with the empty path, with the path of the
\* image and with a path where no file is, and an unknown command, of sixty
\* characters, which is too long to be overwritten
Commands ==
  {"", "h", "hh", "e", "s", "x", "r", "l", "l ", "l " \o SessionImagePath, "l b.img",
   "012345678901234567890123456789012345678901234567890123456789"}

\* std::getline returns the command: the rest of user_prompt, and then
\* either the command was to exit, or session::execute and
\* session::update_messages follow and the loop of viewer::execute goes on
Command ==
  /\ viewer.at = "getline"
  /\ Len(trace) < MaxCommands
  /\ exc = "none"
  /\ \E command \in Commands :
       LET prompted == user_prompt(session, viewer, Current, command)
       IN \E done \in (IF prompted.exit
                       THEN {SessionDone(prompted.s, RunReturned(prompted.c, <<>>, FALSE), FALSE)}
                       ELSE IF prompted.steps.given
                       THEN session_execute_steps(prompted.s, cfg, prompted.c,
                                                  prompted.steps.value)
                       ELSE session_execute(prompted.s, cfg, prompted.c)) :
            LET updated == IF done.exc = "none" /\ ~prompted.exit
                           THEN update_messages(done.s, done.c)
                           ELSE [s |-> done.s, c |-> done.c]
            IN /\ reg' = updated.c.reg
               /\ status' = updated.c.status
               /\ mem' = updated.c.mem
               /\ panic' = updated.c.panic
               /\ message' = updated.c.message
               /\ session' = updated.s
               /\ viewer' = [viewer EXCEPT !.at = IF prompted.exit THEN "leaving" ELSE "display",
                                           !.already_clear = prompted.already_clear,
                                           !.written = prompted.written]
               /\ res' = (IF done.exc # "none" THEN NoResult
                          ELSE IF done.log = <<>> THEN res ELSE done.log[Len(done.log)])
               /\ exc' = done.exc
               /\ what' = done.what
               /\ trace' = Append(trace, [act |-> "command", arg |-> command, pre |-> Current,
                                          res |-> res', exc |-> done.exc, ran |-> done.ran,
                                          log |-> done.log, before |-> session,
                                          after |-> updated.s])
  /\ UNCHANGED <<cfg, that>>

\* the part of the memory shown: the whole of it, eight bytes from 4 on, or
\* one word
DisplayWindows == {<<0, MemSize>>, <<4, 8>>, <<0, 2>>, <<4, 2>>, <<6, 2>>, <<8, 2>>}

\* what is displayed of a context: machine::state_view() and
\* machine::main_memory(off, sz) with the state for the colours
Snapshots(c, window) ==
  {[registers |-> v,
    memory |-> memory_view_sub(memory_view(c.mem, 0, c.reg), window[1], window[2]).view] :
     v \in {w \in registers_view(c.reg, c.status, c.mem) : w.kind = "value"}}

\* output(os, as_diff(current, previous), fmt) for a view of the registers
\* and for a view of the memory, in the colored and in the plain format: the
\* views are those of the machine, with those taken before the last call or
\* the same ones as previous
RenderDiff ==
  /\ Len(trace) < MaxSteps
  /\ exc # "undefined"
  /\ \E ctx \in BOOLEAN, window \in DisplayWindows :
       \E current \in Snapshots(Current, window) :
         \E previous \in Snapshots(Current, window)
                           \cup (IF trace = <<>> THEN {}
                                 ELSE Snapshots(trace[Len(trace)].pre, window)) :
           trace' = Append(trace,
                      [act |-> "render", pre |-> Current, res |-> res, exc |-> exc,
                       arg |-> [ctx |-> ctx, current |-> current, previous |-> previous],
                       out |-> [registers |-> format_registers(
                                                as_diff(current.registers, previous.registers),
                                                ctx),
                                memory |-> format_memory_view(
                                             as_diff(current.memory, previous.memory), ctx)]])
  /\ UNCHANGED <<reg, status, mem, panic, message, cfg, res, exc, what, session, viewer, that>>

\* the operations of arch::machine that change it
Next ==
  \/ LoadImage \/ ExecuteToHalt \/ ExecuteSteps \/ Reset
  \/ Swap \/ Assign \/ MoveAssign

\* the steps of a scenario that executes single instructions under each
\* configuration
NextCore == ExecuteInstruction \/ Reset

\* the steps of a scenario taken from the tests: the test machine's step as
\* well
NextTest == ExecuteInstruction \/ TestExecuteInstruction \/ Reset

(***************************************************************************)
(* ALU scenarios: ADD and ADC in every operand form                        *)
(***************************************************************************)
AluValues == {0, 2, 2379, 32768, 65533, 65535}

AluImmediates == {515, 62805, 65535}

StatusValues == {0, 1, 2, 3, 32774}

AluShortWords ==
  UNION {{assemble(code, make_operands_reg_reg(0, 1, 2)),
          assemble(code, make_operands_reg_reg(1, 1, 1)),
          assemble(code, make_operands_reg_reg(2, 1, 7)),
          assemble(code, make_operands_reg_reg(7, 1, 2)),
          assemble(code, make_operands_short_acc(1, 6)),
          assemble(code, make_operands_short_acc(1, 65529)),
          assemble(code, make_operands_acc_short(2, 5))} : code \in {op_add, op_add_with_carry}}

AluLongWords ==
  UNION {{assemble(code, make_operands_imm_reg(0, 1)),
          assemble(code, make_operands_reg_imm(0, 2)),
          assemble(code, BitOr(make_operands_imm_reg(0, 1), operand_imm_unassigned_mask))} :
         code \in {op_add, op_add_with_carry}}

AluPrograms ==
  {<<w>> : w \in AluShortWords} \cup {<<w, i>> : w \in AluLongWords, i \in AluImmediates}

AluRegisters ==
  {[initial_registers EXCEPT ![1] = a, ![2] = b] : a \in AluValues, b \in AluValues}

AluConfigurations == {cf \in Configurations : cf.strict = cf.dbg}

InitAlu ==
  InitMachine(AluPrograms, AluRegisters, StatusValues, {0}, NoData, AluConfigurations)

SpecAlu == InitAlu /\ [][NextTest]_vars

(***************************************************************************)
(* Jump scenarios: JMP and the conditional jumps, short and long           *)
(***************************************************************************)
JumpAddresses == {a \in short_jump_address : a \in {0, 2, 26, 508, 510, 65024, 65504, 65534}}

CondJumpAddresses == {a \in short_cond_jump_address : a \in {0, 4, 26, 65504}}

JumpImmediates == {1, 4, 24868}

\* every cneg / cflag combination, as make_condition lays it out
JumpConditions ==
  {make_condition(BitOr(ShiftLeft(f, operand_cond_flag_offset), n)) :
     f \in 0 .. 3, n \in {0, operand_cond_neg_mask}}

JumpShortWords ==
  {assemble(op_jump, make_jump_operands_short(a)) : a \in JumpAddresses}
  \cup {assemble(op_cond_jump, BitOr(cond, make_immediate_cond_jump(a))) :
          cond \in JumpConditions, a \in CondJumpAddresses}
  \cup {assemble(op_cond_jump,
                 BitOr(make_cond_jump_operands_short(cond, 4), operand_cond_unassigned_mask)) :
          cond \in {jc, jnz}}

JumpLongWords ==
  {assemble(op_jump, make_jump_operands_imm),
   assemble(op_jump, BitOr(make_jump_operands_imm, make_immediate_jump(2)))}
  \cup {assemble(op_cond_jump, BitOr(cond, operand_addr_loc_mask)) : cond \in JumpConditions}

JumpPrograms ==
  {<<w>> : w \in JumpShortWords} \cup {<<w, i>> : w \in JumpLongWords, i \in JumpImmediates}

InitJump ==
  InitMachine(JumpPrograms, {initial_registers}, StatusValues, {0, 4}, NoData, Configurations)

SpecJump == InitJump /\ [][NextTest]_vars

(***************************************************************************)
(* Short jump scenarios: every short address the assembler accepts         *)
(***************************************************************************)
ShortJumpPrograms ==
  {<<assemble(op_jump, make_jump_operands_short(a))>> : a \in short_jump_address}
  \cup {<<assemble(op_cond_jump, make_cond_jump_operands_short(cond, a))>> :
          cond \in {jc, jz, jnc, jnz}, a \in short_cond_jump_address}

\* the configuration of the test machine: strict, debugger, latest level
TestConfigurations == {cf \in Configurations : cf.strict /\ cf.dbg /\ cf.level = level_v1}

InitShortJump ==
  InitMachine(ShortJumpPrograms, {initial_registers}, {0, 1, 2, 3}, {0}, NoData,
              TestConfigurations)

SpecShortJump == InitShortJump /\ [][NextCore]_vars

(***************************************************************************)
(* MOV scenarios                                                           *)
(***************************************************************************)
MoveValues == {0, 4660, 65535}

MoveImmediates == {0, 255, 43981}

MoveShortWords ==
  {assemble(op_move, make_operands_reg(2, 3)),
   assemble(op_move, make_operands_reg(7, 3)),
   assemble(op_move, make_operands_reg(0, 7)),
   assemble(op_move, BitOr(make_operands_reg(2, 3), make_op2(1)))}
  \cup {assemble(op_move, make_operands_short(2, v)) : v \in {0, 5, 65528, 65535}}
  \cup {assemble(op_move, BitOr(make_operands_short(4, 5), operand_as_mask))}

MoveLongWords ==
  {assemble(op_move, make_operands_imm(5)),
   assemble(op_move, make_operands_imm(7)),
   assemble(op_move, BitOr(make_operands_imm(0), make_immediate(1)))}

MovePrograms ==
  {<<w>> : w \in MoveShortWords} \cup {<<w, i>> : w \in MoveLongWords, i \in MoveImmediates}

MoveRegisters == {[initial_registers EXCEPT ![3] = v] : v \in MoveValues}

InitMove ==
  InitMachine(MovePrograms, MoveRegisters, StatusValues, {0, 4}, NoData, Configurations)

SpecMove == InitMove /\ [][NextTest]_vars

(***************************************************************************)
(* LDR / STR scenarios                                                     *)
(***************************************************************************)
\* addresses held in r1: valid ones, an odd one, one beyond the memory
MemoryAddresses == {2, 8, 9, 32}

MemoryData == {<<a, v>> : a \in {2, 8}, v \in {0, 43981}}

MemoryShortWords ==
  UNION {{assemble(code, make_operands_reg(2, 1)),
          assemble(code, make_operands_reg(7, 1)),
          assemble(code, make_operands_short(3, 2)),
          assemble(code, make_operands_short(3, 65534)),
          assemble(code, BitOr(make_operands_reg(2, 1), make_op2(4)))} :
         code \in {op_load, op_store}}

MemoryLongWords ==
  UNION {{assemble(code, make_operands_imm(4)),
          assemble(code, BitOr(make_operands_imm(4), make_immediate(3)))} :
         code \in {op_load, op_store}}

MemoryPrograms ==
  {<<w>> : w \in MemoryShortWords} \cup {<<w, i>> : w \in MemoryLongWords, i \in MemoryAddresses}

MemoryRegisters == {[initial_registers EXCEPT ![1] = a] : a \in MemoryAddresses}

InitMemory ==
  InitMachine(MemoryPrograms, MemoryRegisters, {0, 1, 3, 32774}, {0, 4}, MemoryData,
              Configurations)

SpecMemory == InitMemory /\ [][NextTest]_vars

(***************************************************************************)
(* HLT / NOP scenarios: the instruction, what follows it, what precedes it *)
(***************************************************************************)
HaltWords ==
  {assemble(op_halt, 0), assemble(op_halt, make_op0(1)), assemble(op_halt, operand_sel_mask),
   assemble(op_noop, 0)}

FollowingWords ==
  {assemble(op_halt, 0), assemble(op_noop, 0), assemble(op_move, make_operands_short(2, 5)),
   assemble(op_add, make_operands_reg_reg(0, 1, 2)),
   assemble(op_cond_jump, make_cond_jump_operands_short(jnc, 0)), 0}

HaltPrograms ==
  {<<w, v>> : w \in HaltWords, v \in FollowingWords}
  \cup {<<v, w>> : w \in HaltWords, v \in {0, assemble(op_noop, 0)}}

InitHalt ==
  InitMachine(HaltPrograms, {initial_registers}, StatusValues, {0, 4, MemSize - 2}, NoData,
              Configurations)

SpecHalt == InitHalt /\ [][NextTest]_vars

(***************************************************************************)
(* Assembly scenarios: each instruction the assembler can produce, with    *)
(* the text the instruction is written as.                                 *)
(***************************************************************************)
AssemblyRegisters == {0, 3, 7}

AssemblyShorts == {v \in short_immediate : v \in {0, 5, 7, 65529, 65535}}

AssemblyImmediates == {9, 10, 171, 4660}

AssemblyJumps == {a \in short_jump_address : a \in {0, 2, 508, 65504}}

AssemblyCondJumps == {a \in short_cond_jump_address : a \in {0, 26, 65504}}

\* the names the registers are written with
register_text == [i \in 0 .. 7 |-> CASE i = 6 -> "sp" [] i = 7 -> "ip" [] OTHER -> "r" \o ToString(i)]

AssemblyCase(code, program, text) ==
  [code |-> code, program |-> program, expected |-> [words |-> Len(program), text |-> text]]

TwoOperandCases ==
  UNION {LET code == m[1]
             head(a) == m[2] \o " " \o register_text[a] \o ", "
         IN {AssemblyCase(code, <<assemble(code, make_operands_reg(a, b))>>,
                          head(a) \o register_text[b]) :
               a \in AssemblyRegisters, b \in AssemblyRegisters}
            \cup {AssemblyCase(code, <<assemble(code, make_operands_imm(a)), i>>,
                               head(a) \o output_immediate_impl(i)) :
                    a \in AssemblyRegisters, i \in AssemblyImmediates}
            \cup {AssemblyCase(code, <<assemble(code, make_operands_short(a, v))>>,
                               head(a) \o output_immediate_impl(v)) :
                    a \in AssemblyRegisters, v \in AssemblyShorts} :
         m \in {<<op_move, "MOV">>, <<op_load, "LDR">>, <<op_store, "STR">>}}

ThreeOperandCases ==
  UNION {LET code == m[1]
             head(a) == m[2] \o " " \o register_text[a] \o ", "
         IN {AssemblyCase(code, <<assemble(code, make_operands_reg_reg(a, b, c))>>,
                          head(a) \o register_text[b] \o ", " \o register_text[c]) :
               a \in AssemblyRegisters, b \in AssemblyRegisters, c \in AssemblyRegisters}
            \cup {AssemblyCase(code, <<assemble(code, make_operands_imm_reg(a, b)), i>>,
                               head(a) \o output_immediate_impl(i) \o ", " \o register_text[b]) :
                    a \in AssemblyRegisters, b \in AssemblyRegisters, i \in AssemblyImmediates}
            \cup {AssemblyCase(code, <<assemble(code, make_operands_reg_imm(a, b)), i>>,
                               head(a) \o register_text[b] \o ", " \o output_immediate_impl(i)) :
                    a \in AssemblyRegisters, b \in AssemblyRegisters, i \in AssemblyImmediates}
            \cup {AssemblyCase(code, <<assemble(code, make_operands_short_acc(a, v))>>,
                               head(a) \o output_immediate_impl(v) \o ", " \o register_text[a]) :
                    a \in AssemblyRegisters, v \in AssemblyShorts}
            \cup {AssemblyCase(code, <<assemble(code, make_operands_acc_short(a, v))>>,
                               head(a) \o register_text[a] \o ", " \o output_immediate_impl(v)) :
                    a \in AssemblyRegisters, v \in AssemblyShorts} :
         m \in {<<op_add, "ADD">>, <<op_add_with_carry, "ADC">>}}

JumpCases ==
  {AssemblyCase(op_jump, <<assemble(op_jump, make_jump_operands_imm), i>>,
                "JMP " \o output_immediate_impl(i)) : i \in AssemblyImmediates}
  \cup {AssemblyCase(op_jump, <<assemble(op_jump, make_jump_operands_short(a))>>,
                     "JMP " \o output_address_impl(a)) : a \in AssemblyJumps}
  \cup UNION {{AssemblyCase(op_cond_jump,
                            <<assemble(op_cond_jump, make_cond_jump_operands_imm(m[1])), i>>,
                            m[2] \o " " \o output_immediate_impl(i)) : i \in AssemblyImmediates}
              \cup {AssemblyCase(op_cond_jump,
                                 <<assemble(op_cond_jump, make_cond_jump_operands_short(m[1], a))>>,
                                 m[2] \o " " \o output_address_impl(a)) : a \in AssemblyCondJumps} :
              m \in {<<jc, "JMC">>, <<jz, "JMZ">>, <<jnc, "JNC">>, <<jnz, "JNZ">>}}

BasicCases ==
  {AssemblyCase(op_noop, <<assemble(op_noop, 0)>>, "NOP"),
   AssemblyCase(op_halt, <<assemble(op_halt, 0)>>, "HLT")}

AssemblyCases == BasicCases \cup TwoOperandCases \cup ThreeOperandCases \cup JumpCases

InitAssembly ==
  InitMachine({k.program : k \in AssemblyCases}, {initial_registers}, {0}, {0}, NoData,
              AluConfigurations)

NextAssembly == DisassembleInstruction \/ ExecuteInstruction

SpecAssembly == InitAssembly /\ [][NextAssembly]_vars

(***************************************************************************)
(* Opcode scenarios: every 6-bit opcode value, with and without operand    *)
(* bits, at both feature levels                                            *)
(***************************************************************************)
OpcodePrograms ==
  {<<BitOr(code, bits)>> : code \in 0 .. opcode_mask, bits \in {0, BitOr(make_op0(2), make_op1(1))}}

\* r0 and r1 hold addresses inside the memory
OpcodeRegisters == {[initial_registers EXCEPT ![0] = 8, ![1] = 10]}

InitOpcode ==
  InitMachine(OpcodePrograms, OpcodeRegisters, {0, 3}, {0}, NoData, Configurations)

SpecOpcode == InitOpcode /\ [][NextCore]_vars

(***************************************************************************)
(* Run scenarios: short programs that halt, panic, loop or run off memory  *)
(***************************************************************************)
RunPrograms ==
  {<<assemble(op_halt, 0)>>,
   <<assemble(op_noop, 0), assemble(op_noop, 0), assemble(op_halt, 0)>>,
   <<assemble(op_move, make_operands_short(2, 5)), assemble(op_add, make_operands_reg_reg(0, 1, 2)),
     assemble(op_halt, 0)>>,
   <<0>>,
   <<assemble(op_move, make_operands_reg(2, 3)), op_relative_load>>,
   <<assemble(op_jump, make_jump_operands_short(0))>>,
   <<assemble(op_cond_jump, make_cond_jump_operands_short(jnc, 0)), assemble(op_halt, 0)>>,
   <<assemble(op_move, make_operands_short(2, 5)), assemble(op_halt, make_op0(1))>>,
   <<assemble(op_move, make_operands_reg(0, 1)), assemble(op_move, make_operands_reg(1, 2)),
     assemble(op_move, make_operands_reg(2, 3)), assemble(op_move, make_operands_reg(3, 4)),
     assemble(op_move, make_operands_reg(4, 5)), assemble(op_halt, 0)>>,
   [k \in 1 .. MemWords |-> assemble(op_noop, 0)]}

InitRun ==
  InitMachine(RunPrograms, {initial_registers}, {0, 1}, {0}, NoData, Configurations)

NextRun == ExecuteToHalt \/ ExecuteSteps \/ ExecuteInstruction

SpecRun == InitRun /\ [][NextRun]_vars

(***************************************************************************)
(* Access scenarios: loads, stores and fetches at valid, odd and           *)
(* out-of-range addresses                                                  *)
(***************************************************************************)
AccessAddresses == {8, 9, MemSize - 1, MemSize, MemSize + 1, 2 * MemSize, WordModulus - 1}

AccessShortWords ==
  {assemble(op_load, make_operands_reg(2, 1)),
   assemble(op_store, make_operands_reg(3, 1)),
   assemble(op_move, make_operands_reg(7, 1))}

AccessLongWords ==
  {assemble(op_load, make_operands_imm(4)), assemble(op_store, make_operands_imm(4))}

AccessPrograms ==
  {<<w>> : w \in AccessShortWords} \cup {<<w, i>> : w \in AccessLongWords, i \in AccessAddresses}

AccessRegisters == {[initial_registers EXCEPT ![1] = a] : a \in AccessAddresses}

InitAccess ==
  InitMachine(AccessPrograms, AccessRegisters, {0, 3}, {0, MemSize - 2}, NoData, Configurations)

SpecAccess == InitAccess /\ [][NextCore]_vars

(***************************************************************************)
(* Image scenarios: a machine that is loaded, stepped and reset            *)
(***************************************************************************)
ImagePrograms ==
  {<<assemble(op_move, make_operands_short(2, 5))>>,
   <<assemble(op_store, make_operands_reg(3, 1))>>,
   <<assemble(op_halt, 0)>>}

ImageRegisters == {[initial_registers EXCEPT ![1] = 8]}

InitImage ==
  InitMachine(ImagePrograms, ImageRegisters, {3}, {0}, NoData, TestConfigurations)

NextImage == Next \/ ExecuteInstruction

SpecImage == InitImage /\ [][NextImage]_vars

(***************************************************************************)
(* Form scenarios: every instruction of the table in every operand form,   *)
(* with and without stray bits, followed by an immediate word, as the      *)
(* first instruction and as the one after a word that is no instruction    *)
(* and leaves a panic                                                      *)
(***************************************************************************)
FormOpcodes ==
  {op_move, op_load, op_store, op_add, op_add_with_carry, op_jump, op_cond_jump, op_noop,
   op_halt}

\* operand bits: register forms, short and long immediate forms, the
\* argument switch, ip as the destination, condition bits of the jumps
FormOperands ==
  {0,
   make_op0(2),
   BitOr(make_op0(2), make_op1(1)),
   BitOr(make_op0(7), make_op1(1)),
   BitOr(BitOr(make_op0(3), make_op1(1)), make_op2(4)),
   BitOr(operand_sel_mask, BitOr(make_op0(2), make_op1(3))),
   BitOr(operand_sel_mask, BitOr(operand_as_mask, BitOr(make_op0(2), make_op1(3)))),
   BitOr(operand_sel_mask, BitOr(operand_loc_mask, make_op0(2))),
   BitOr(operand_sel_mask, BitOr(operand_loc_mask, BitOr(make_op0(1), make_op1(3)))),
   BitOr(operand_sel_mask, BitOr(operand_loc_mask, BitOr(operand_as_mask, make_op0(2)))),
   BitOr(operand_loc_mask, make_op0(1)),
   BitOr(operand_loc_mask, make_op0(2))}

FormPrograms ==
  {<<assemble(code, bits), 6>> : code \in FormOpcodes, bits \in FormOperands}
    \cup {<<6, assemble(code, bits), 6>> : code \in FormOpcodes, bits \in FormOperands}

FormRegisters == {[initial_registers EXCEPT ![1] = 8, ![3] = 4]}

InitForm == InitMachine(FormPrograms, FormRegisters, {0, 3}, {0, 4}, NoData, Configurations)

SpecForm == InitForm /\ [][NextCore]_vars

(***************************************************************************)
(* Short value scenarios: values at the boundaries of the short ranges     *)
(* are constructed, assembled and executed                                 *)
(***************************************************************************)
InitShort ==
  InitMachine({<<assemble(op_halt, 0)>>}, {initial_registers}, {1}, {0}, NoData,
              TestConfigurations)

NextShort == AssembleShort \/ ExecuteInstruction

SpecShort == InitShort /\ [][NextShort]_vars

(***************************************************************************)
(* Rendering scenarios: a machine whose registers and memory are rendered  *)
(* before and after an instruction                                         *)
(***************************************************************************)
DisplayPrograms ==
  {<<assemble(op_move, make_operands_short(2, 5))>>,
   <<assemble(op_add, make_operands_reg_reg(0, 1, 2))>>,
   <<assemble(op_store, make_operands_reg(3, 1))>>,
   <<assemble(op_halt, 0)>>}

DisplayRegisters == {[initial_registers EXCEPT ![1] = 8, ![6] = 6]}

InitDisplay ==
  InitMachine(DisplayPrograms, DisplayRegisters, {0, 3, 32774}, {0, 4}, NoData,
              TestConfigurations)

NextRender == RenderDiff \/ ExecuteInstruction

SpecDisplay == InitDisplay /\ [][NextRender]_vars

(***************************************************************************)
(* Assembler scenarios: every word assemble<Code, Level> can produce, for  *)
(* every opcode of the level, every operand shape, every register and      *)
(* every value the short types accept, executed and disassembled at that   *)
(* level                                                                   *)
(***************************************************************************)
AllRegisters == 0 .. (num_registers - 1)

LongImmediates == {0, 4660, WordModulus - 1}

\* assemble<Code, Level> requires an opcode of the level
AssembledOpcodes(level, type) ==
  {code \in SwitchOpcodes :
     instruction_supported(code, level) /\ instruction_type(code) = type}

\* the programs of one word, and of two words with a long immediate
AssembledPrograms(level) ==
  {<<assemble(code, 0)>> : code \in AssembledOpcodes(level, "basic")}
  \cup UNION {{<<assemble(code, make_operands_reg(a, b))>> :
                 a \in AllRegisters, b \in AllRegisters}
              \cup {<<assemble(code, make_operands_imm(a)), i>> :
                      a \in AllRegisters, i \in LongImmediates}
              \cup {<<assemble(code, make_operands_short(a, v))>> :
                      a \in AllRegisters, v \in short_immediate} :
              code \in AssembledOpcodes(level, "op0_op1")}
  \cup UNION {{<<assemble(code, make_operands_reg_reg(a, b, c))>> :
                 a \in AllRegisters, b \in AllRegisters, c \in AllRegisters}
              \cup {<<assemble(code, make_operands_imm_reg(a, b)), i>> :
                      a \in AllRegisters, b \in AllRegisters, i \in LongImmediates}
              \cup {<<assemble(code, make_operands_reg_imm(a, b)), i>> :
                      a \in AllRegisters, b \in AllRegisters, i \in LongImmediates}
              \cup {<<assemble(code, make_operands_short_acc(a, v))>> :
                      a \in AllRegisters, v \in short_immediate}
              \cup {<<assemble(code, make_operands_acc_short(a, v))>> :
                      a \in AllRegisters, v \in short_immediate} :
              code \in AssembledOpcodes(level, "op0_op1_op2")}
  \cup UNION {{<<assemble(code, make_jump_operands_imm), i>> : i \in LongImmediates}
              \cup {<<assemble(code, make_jump_operands_short(a))>> : a \in short_jump_address} :
              code \in AssembledOpcodes(level, "jump")}
  \cup UNION {{<<assemble(code, make_cond_jump_operands_imm(cond)), i>> :
                 cond \in {jc, jz, jnc, jnz}, i \in LongImmediates}
              \cup {<<assemble(code, make_cond_jump_operands_short(cond, a))>> :
                      cond \in {jc, jz, jnc, jnz}, a \in short_cond_jump_address} :
              code \in AssembledOpcodes(level, "cond_jump")}

InitAssembled ==
  \E level \in {level_min, level_v1} :
    InitMachine(AssembledPrograms(level), {initial_registers}, {0}, {0}, NoData,
                {cf \in Configurations : cf.strict /\ cf.level = level})

SpecAssembled == InitAssembled /\ [][NextAssembly]_vars

(***************************************************************************)
(* Audit scenarios: every operand bit pattern of every opcode of the       *)
(* switch, followed by a word that is a legal immediate or address and,    *)
(* executed, an instruction with a reserved bit set                        *)
(***************************************************************************)
AuditWords == {BitOr(code, ShiftLeft(bits, 6)) : code \in SwitchOpcodes, bits \in 0 .. 1023}

\* 0: the first byte of the memory; 0x01bf: HLT with op0 and op1 bits set
AuditSecondWords == {0, 447}

AuditPrograms == {<<w, v>> : w \in AuditWords, v \in AuditSecondWords}

\* every register holds the address of a word of the memory
AuditRegisters == {[i \in 0 .. (num_registers - 1) |-> 8]}

InitAudit ==
  InitMachine(AuditPrograms, AuditRegisters, {0}, {0}, NoData,
              {cf \in Configurations : cf.strict})

SpecAudit == InitAudit /\ [][NextCore]_vars

(***************************************************************************)
(* Snapshot scenarios: machines with a memory of every size from none to   *)
(* MemSize and ip inside, at the end of, beyond and at odd addresses       *)
(***************************************************************************)
\* memory::memory(sz) takes word-aligned sizes only
ViewSizes == {0, 2, 6, MemSize}

ViewIps == {0, 1, 2, 4, 5, MemSize - 2, MemSize, WordModulus - 2, WordModulus - 1}

\* machine::state_view(): the views registers_view(reg, mem) can deliver
StateView ==
  /\ Len(trace) < MaxSteps
  /\ exc # "undefined"
  /\ trace' = Append(trace, [act |-> "state_view", pre |-> Current, res |-> res, exc |-> exc,
                             out |-> registers_view(reg, status, mem)])
  /\ UNCHANGED <<reg, status, mem, panic, message, cfg, res, exc, what, session, viewer, that>>

InitView ==
  \E size \in ViewSizes, ip \in ViewIps, s \in {0, 3}, cf \in Configurations :
    /\ reg = [initial_registers EXCEPT ![7] = ip]
    /\ status = s
    /\ mem = [k \in 1 .. size |-> (k - 1) % 256]
    /\ panic = FALSE
    /\ message = NoMessage
    /\ cfg = cf
    /\ res = continue_result
    /\ exc = "none"
    /\ what = NoMessage
    /\ trace = <<>>
    /\ session = NoSession
    /\ viewer = NoViewer
    /\ that = OtherMachine

NextView == StateView \/ ExecuteInstruction

SpecView == InitView /\ [][NextView]_vars

(***************************************************************************)
(* Flag scenarios: every instruction form from every status made of C and  *)
(* Z, with operands that give zero and non-zero results with and without   *)
(* a carry, in every mode and at both levels                               *)
(***************************************************************************)
FlagPrograms ==
  {<<assemble(code, bits), v>> :
     code \in FormOpcodes, bits \in FormOperands, v \in {0, 6, WordModulus - 1}}

FlagRegisters ==
  {[initial_registers EXCEPT ![1] = 8, ![3] = 4],
   [initial_registers EXCEPT ![1] = 1, ![2] = 0, ![3] = 1, ![4] = WordModulus - 1]}

InitFlags ==
  InitMachine(FlagPrograms, FlagRegisters, 0 .. BitOr(carry_flag, zero_flag), {0}, NoData,
              Configurations)

SpecFlags == InitFlags /\ [][NextCore]_vars

(***************************************************************************)
(* Stray status scenarios: every instruction form executed under the       *)
(* strict policy with status bits other than C and Z set                   *)
(***************************************************************************)
StrayStatuses == {4, 32768, 32774, WordModulus - 1}

InitStray ==
  InitMachine(FormPrograms, FormRegisters, StrayStatuses, {0}, NoData,
              {cf \in Configurations : cf.strict})

SpecStray == InitStray /\ [][NextCore]_vars

\* Words at the addresses held by registers: r1 alone, sp alone, ip alone,
\* and sp or r1 together with ip.
ColourRegisters ==
  {[initial_registers EXCEPT ![1] = 8, ![6] = 6],
   [initial_registers EXCEPT ![1] = 0, ![6] = 4],
   [initial_registers EXCEPT ![0] = 8, ![2] = 8, ![3] = 8, ![4] = 8, ![5] = 8, ![6] = 8]}

InitColour ==
  InitMachine({<<assemble(op_halt, 0)>>}, ColourRegisters, {0}, {0, 4, 6}, NoData,
              TestConfigurations)

SpecColour == InitColour /\ [][NextRender]_vars

(***************************************************************************)
(* Session scenarios: the emulator constructed in the interactive mode,    *)
(* without an image or with the image of a program that halts, that        *)
(* panics under the strict policy or that runs on; the debugger is the     *)
(* viewer's, the console supports colours or does not                      *)
(***************************************************************************)
\* words of the main memory of the emulator's machine: the observed window
\* and two words beyond it
SessionWords == 130

SessionPrograms ==
  {<<>>,
   <<assemble(op_move, make_operands_short(2, 5)), assemble(op_halt, 0)>>,
   <<assemble(op_store, make_operands_reg(3, 1)), assemble(op_halt, make_op0(1))>>,
   <<assemble(op_jump, make_jump_operands_short(0))>>}

SessionConfigurations == {cf \in Configurations : cf.dbg /\ cf.level = level_v1}

\* emulator::emulator(image, level, emulator_mode::interactive): the machine
\* is constructed with the viewer's debugger and the image, unless its path
\* is empty, is loaded; execute(mode) will be called in either mode
InitSession ==
  \E p \in SessionPrograms, cf \in SessionConfigurations, supported \in BOOLEAN :
    LET constructed == [new_machine(cf.level, TRUE) EXCEPT
                          !.mem = [k \in 1 .. (2 * SessionWords) |-> 0]]
        loaded == IF p = <<>> THEN constructed ELSE load_image(constructed, image_of(p)).c
    IN /\ reg = loaded.reg
       /\ status = loaded.status
       /\ mem = loaded.mem
       /\ panic = FALSE
       /\ message = NoMessage
       /\ cfg = cf
       /\ res = continue_result
       /\ exc = "none"
       /\ what = NoMessage
       /\ trace = <<>>
       /\ session = NewSession
       /\ viewer = NewViewer(supported)
       /\ that = OtherMachine

NextSession == Enter \/ Display \/ Command

SpecSession == InitSession /\ [][NextSession]_vars

(***************************************************************************)
(* Debugger scenarios: steps that panic for the word and for an address,   *)
(* steps that do not, and the calls that reset the machine, store a        *)
(* message in the debugger and reset the debugger                          *)
(***************************************************************************)
DebuggerPrograms ==
  {<<assemble(op_halt, make_op0(1))>>,
   <<assemble(op_store, make_operands_reg(3, 1)), assemble(op_halt, make_op0(1))>>,
   <<assemble(op_move, make_operands_short(2, 5)), assemble(op_load, make_operands_reg(2, 1))>>,
   <<op_relative_load>>,
   <<assemble(op_halt, 0)>>}

InitDebugger ==
  InitMachine(DebuggerPrograms, {[initial_registers EXCEPT ![1] = a] : a \in {8, 9}}, {0}, {0},
              NoData, {cf \in Configurations : cf.dbg})

NextDebugger == ExecuteInstruction \/ Reset \/ StoreDebugMessage \/ ResetMessage \/ ResetPanic

SpecDebugger == InitDebugger /\ [][NextDebugger]_vars

(***************************************************************************)
(* Word scenarios: every 16-bit word as the instruction at ip, followed by *)
(* the address of a word of the memory, disassembled and executed under    *)
(* the strict policy                                                       *)
(***************************************************************************)
WordPrograms == {<<w, 8>> : w \in Word}

InitWords ==
  InitMachine(WordPrograms, AuditRegisters, {0}, {0}, NoData,
              {cf \in Configurations : cf.strict})

SpecWords == InitWords /\ [][NextAssembly]_vars

(***************************************************************************)
(* Fetch scenarios: ip at odd addresses and outside the memory, and every  *)
(* instruction form in the last word of the memory, where the word after   *)
(* it cannot be fetched; strict policy with the debugger                   *)
(***************************************************************************)
FetchIps == {1, 9, MemSize - 1, MemSize, MemSize + 1, WordModulus - 2, WordModulus - 1}

FetchConfigurations == {cf \in Configurations : cf.strict /\ cf.dbg}

InitFetch ==
  \/ InitMachine(FormPrograms, FormRegisters, {0, 3}, {MemSize - 2}, NoData, FetchConfigurations)
  \/ InitMachine({<<>>}, FormRegisters, {0, 3}, FetchIps, NoData, FetchConfigurations)

SpecFetch == InitFetch /\ [][NextCore]_vars

\* every scenario
Init ==
  \/ InitAlu \/ InitJump \/ InitShortJump \/ InitMove \/ InitMemory \/ InitHalt
  \/ InitAssembly \/ InitOpcode \/ InitRun \/ InitAccess \/ InitImage \/ InitForm \/ InitShort \/ InitDisplay \/ InitAssembled \/ InitAudit \/ InitView \/ InitFlags \/ InitStray \/ InitColour \/ InitSession \/ InitDebugger \/ InitWords \/ InitFetch

Spec == Init /\ [][Next]_vars

(***************************************************************************)
(* Reading the last call back from the history.  The instruction is        *)
(* decoded here field by field from the layout of instructions.hpp,        *)
(* independently of the decoding operators of the step.                    *)
(***************************************************************************)
Field(w, lo, width) == (w \div Pow2(lo)) % Pow2(width)

Executed == trace # <<>> /\ trace[Len(trace)].act = "execute"

Last == trace[Len(trace)]

Pre == Last.pre

\* a word can be read at address a of memory m
Readable(m, a) == a % 2 = 0 /\ a + 1 < Len(m)

WordAt(m, a) == m[a + 1] + 256 * m[a + 2]

PreIp == Pre.reg[7]

\* the instruction word and the word following it
Instr == WordAt(Pre.mem, PreIp)

ImmAddress == ToWord(PreIp + 2)

Imm == WordAt(Pre.mem, ImmAddress)

Opcode == Field(Instr, 0, 6)

Sel == Field(Instr, 15, 1)

Loc == Field(Instr, 14, 1)

Dest == Field(Instr, 6, 3)

\* the instruction has an immediate word (long form) and it can be read
LongForm == Sel = 1 /\ Loc = 1

\* the registers as the handler sees them: ip is past the words fetched
SeenRegisters(words) == [Pre.reg EXCEPT ![7] = ToWord(PreIp + 2 * words)]

\* the last call fetched an instruction with this opcode and its operands
Ran(code) ==
  /\ Executed
  /\ Readable(Pre.mem, PreIp)
  /\ Opcode = code
  /\ instruction_supported(code, cfg.level)

RanOperands(code) == Ran(code) /\ (LongForm => Readable(Pre.mem, ImmAddress))

\* the sum of the two ALU operands of a three-operand instruction
AluSum ==
  IF Sel = 0
  THEN SeenRegisters(1)[Field(Instr, 9, 3)] + SeenRegisters(1)[Field(Instr, 12, 3)]
  ELSE IF Loc = 0 THEN Field(Instr, 9, 4) + SeenRegisters(1)[Dest]
  ELSE Imm + SeenRegisters(2)[Field(Instr, 9, 3)]

Carry(s) == Field(s, 0, 1)

Zero(s) == Field(s, 1, 1)

\* the number of words of a two- or three-operand instruction
Words == IF LongForm THEN 2 ELSE 1

\* the second operand of a two-operand instruction: a register, the short
\* field taken as it stands, or the word after the instruction
SecondOperand ==
  IF Sel = 0 THEN SeenRegisters(1)[Field(Instr, 9, 3)]
  ELSE IF Loc = 0 THEN Field(Instr, 9, 4)
  ELSE Imm

\* jump layout: aloc, and the number of words of the jump
JumpLong == Field(Instr, 15, 1) = 1

JumpWords == IF JumpLong THEN 2 ELSE 1

RanJump(code) == Ran(code) /\ (JumpLong => Readable(Pre.mem, ImmAddress))

\* the condition of a conditional jump, from cneg, cflag and the status
CondTaken ==
  LET selected == \/ Field(Instr, 6, 1) = 1 /\ Carry(Pre.status) = 1
                  \/ Field(Instr, 7, 1) = 1 /\ Zero(Pre.status) = 1
  IN selected # (Field(Instr, 14, 1) = 1)

\* r0..r5 and sp are as they were before the call
RegistersKept == \A i \in 0 .. 6 : reg[i] = Pre.reg[i]

\* the call before the last one executed HLT and returned (false, false),
\* and the last call is a further execute with no reset in between
AfterHalt ==
  /\ Len(trace) >= 2
  /\ Executed
  /\ LET before == trace[Len(trace) - 1]
     IN /\ before.act = "execute"
        /\ before.res = halt_result
        /\ before.exc = "none"
        /\ Readable(before.pre.mem, before.pre.reg[7])
        /\ Field(WordAt(before.pre.mem, before.pre.reg[7]), 0, 6) = op_halt

\* the ip at which that HLT was fetched
HaltIp == trace[Len(trace) - 1].pre.reg[7]

\* the words the assembler produces for the short jumps
ShortJumpWord == [a \in short_jump_address |-> assemble(op_jump, make_jump_operands_short(a))]

ShortCondJumpWord ==
  [x \in {jc, jz, jnc, jnz} \X short_cond_jump_address |->
     assemble(op_cond_jump, make_cond_jump_operands_short(x[1], x[2]))]

(***************************************************************************)
(* Claims                                                                  *)
(***************************************************************************)
\* C1: executing ADD writes (a+b) mod 2^16 to the destination register, sets
\* Z iff that word is zero and C iff a+b >= 2^16, whatever the prior status
\* was, and leaves no other status bit set.
C1_AddResult ==
  RanOperands(op_add) =>
    /\ reg[Dest] = AluSum % WordModulus
    /\ (Zero(status) = 1) <=> (AluSum % WordModulus = 0)
    /\ (Carry(status) = 1) <=> (AluSum >= WordModulus)
    /\ status \in {0, 1, 2, 3}

\* an ADD that overflows to zero from a status with C, Z and stray bits set
C1_Witness ==
  /\ RanOperands(op_add)
  /\ Pre.status = 32774
  /\ AluSum = WordModulus
  /\ status = 3

\* C2: executing ADC writes (a+b+c) mod 2^16, c the prior carry bit, sets
\* C to floor((a+b+c)/2^16) and Z iff the written word is zero.
C2_AdcResult ==
  RanOperands(op_add_with_carry) =>
    LET sum == AluSum + Carry(Pre.status)
    IN /\ reg[Dest] = sum % WordModulus
       /\ Carry(status) = sum \div WordModulus
       /\ (Zero(status) = 1) <=> (reg[Dest] = 0)
       /\ status \in {0, 1, 2, 3}

\* 0xfffd + 0x0002 + C gives zero with Z and C set
C2_Witness ==
  /\ RanOperands(op_add_with_carry)
  /\ Pre.status = 1
  /\ AluSum = 65535
  /\ reg[Dest] = 0
  /\ status = 3

\* C3: a conditional jump sets ip to its target when ((status & cflag) # 0)
\* differs from cneg, and otherwise leaves ip after the instruction (after
\* the immediate word in the long form); status, r0..r5, sp and memory keep
\* their values either way.
C3_CondJump ==
  RanJump(op_cond_jump) =>
    LET target == IF JumpLong THEN Imm ELSE 2 * Field(Instr, 9, 5)
        after == ToWord(PreIp + 2 * JumpWords)
    IN /\ reg[7] = (IF CondTaken THEN target ELSE after)
       /\ status = Pre.status
       /\ RegistersKept
       /\ mem = Pre.mem

\* a long JNZ taken because Z is clear while C is set
C3_Witness ==
  /\ RanJump(op_cond_jump)
  /\ JumpLong
  /\ Field(Instr, 14, 1) = 1
  /\ Field(Instr, 6, 2) = 2
  /\ Pre.status = 1
  /\ reg[7] = Imm
  /\ Imm # ToWord(PreIp + 4)

\* C4: at level v1 JMP sets ip to the encoded target (twice the 9-bit
\* field in the short form, the following word in the long form) for every
\* status, and changes no other register, no status bit and no memory.
C4_Jump ==
  RanJump(op_jump) =>
    /\ reg[7] = (IF JumpLong THEN Imm ELSE 2 * Field(Instr, 6, 9))
    /\ status = Pre.status
    /\ RegistersKept
    /\ mem = Pre.mem

\* a short JMP forward, taken with Z and C set
C4_Witness ==
  /\ RanJump(op_jump)
  /\ ~JumpLong
  /\ Pre.status = 3
  /\ reg[7] = 2 * Field(Instr, 6, 9)
  /\ reg[7] > PreIp + 2

\* C5: MOV writes the value v of its second operand to register op0, sets
\* Z iff v = 0, leaves C as it was, and changes no other register (apart
\* from the ip advance) and no memory.
C5_Move ==
  RanOperands(op_move) =>
    /\ reg[Dest] = SecondOperand
    /\ (Zero(status) = 1) <=> (SecondOperand = 0)
    /\ Carry(status) = Carry(Pre.status)
    /\ \A i \in 0 .. 6 : i # Dest => reg[i] = Pre.reg[i]
    /\ Dest # 7 => reg[7] = ToWord(PreIp + 2 * Words)
    /\ mem = Pre.mem

\* MOV of a short zero with only C set: Z is raised and C survives
C5_Witness ==
  /\ RanOperands(op_move)
  /\ Sel = 1
  /\ Loc = 0
  /\ SecondOperand = 0
  /\ Pre.status = 1
  /\ Pre.reg[Dest] # 0
  /\ reg[Dest] = 0
  /\ status = 3

\* C6: LDR with a valid (even, in-range) address writes the memory word to
\* op0 and sets Z iff that word is zero, leaving C unchanged.
C6_LoadUpdatesZero ==
  (RanOperands(op_load) /\ Readable(Pre.mem, SecondOperand)) =>
    LET word == WordAt(Pre.mem, SecondOperand)
    IN /\ reg[Dest] = word
       /\ (Zero(status) = 1) <=> (word = 0)
       /\ Carry(status) = Carry(Pre.status)

\* C7: STR with a valid (even, in-range) address stores the value of
\* register op0 in the memory word at that address; every other memory
\* byte, the status and every register except ip keep their values.
C7_Store ==
  (RanOperands(op_store) /\ Readable(Pre.mem, SecondOperand)) =>
    /\ WordAt(mem, SecondOperand) = SeenRegisters(Words)[Dest]
    /\ Len(mem) = Len(Pre.mem)
    /\ \A k \in 1 .. Len(mem) :
         k \notin {SecondOperand + 1, SecondOperand + 2} => mem[k] = Pre.mem[k]
    /\ status = Pre.status
    /\ RegistersKept
    /\ reg[7] = ToWord(PreIp + 2 * Words)

\* STR r3 to a short address overwrites the word that was there
C7_Witness ==
  /\ RanOperands(op_store)
  /\ Readable(Pre.mem, SecondOperand)
  /\ Dest = 3
  /\ Pre.status = 3
  /\ WordAt(Pre.mem, SecondOperand) # Pre.reg[3]
  /\ WordAt(mem, SecondOperand) = Pre.reg[3]

\* C8: HLT with all operand bits zero returns (false, false), advances ip
\* by one word and leaves r0..r5, sp, status, memory and the debugger's
\* panic flag unchanged, under every policy.
C8_Halt ==
  (Ran(op_halt) /\ Field(Instr, 6, 10) = 0) =>
    /\ res = halt_result
    /\ exc = "none"
    /\ reg[7] = ToWord(PreIp + 2)
    /\ RegistersKept
    /\ status = Pre.status
    /\ mem = Pre.mem
    /\ panic = Pre.panic

\* a HLT executed while the debugger already holds a panic
C8_Witness ==
  /\ Ran(op_halt)
  /\ Field(Instr, 6, 10) = 0
  /\ Pre.panic
  /\ panic
  /\ res = halt_result

\* C9 as stated: after HLT returned (false, false), a further call without
\* reset is a no-op and returns (false, false) again.
C9_NoOpAfterHalt ==
  AfterHalt => (Current = Pre /\ res = halt_result /\ exc = "none")

\* C9 as the code has it: the core keeps no halted state, so the further
\* call is an ordinary step on the word that follows the HLT (a MOV there
\* is carried out); it returns (false, false) only by executing another
\* HLT, and then ip has moved on by one more word, so the call is never a
\* no-op that halts.
C9_StepAfterHalt ==
  AfterHalt =>
    /\ PreIp = ToWord(HaltIp + 2)
    /\ ~(Current = Pre /\ res = halt_result)
    /\ (res = halt_result /\ exc = "none") =>
         /\ reg[7] = ToWord(PreIp + 2)
         /\ Readable(Pre.mem, PreIp) => Opcode = op_halt
    /\ RanOperands(op_move) => reg[Dest] = SecondOperand

\* the call after a HLT executes a second HLT and moves ip past it
C9_Witness ==
  /\ AfterHalt
  /\ Ran(op_halt)
  /\ res = halt_result
  /\ reg[7] = ToWord(HaltIp + 4)

\* C10: for every address a the assembler accepts as a short jump address,
\* executing the assembled JMP sets ip to a, executing the assembled
\* conditional jump with its condition true sets ip to a, and the
\* disassembler prints the same a.
C10_ShortJumpAgrees ==
  /\ (Ran(op_jump) /\ ~JumpLong) =>
       \A a \in short_jump_address :
         ShortJumpWord[a] = Instr =>
           (reg[7] = a /\ output_short_jump_address(Instr) = a)
  /\ (Ran(op_cond_jump) /\ ~JumpLong /\ CondTaken) =>
       \A x \in DOMAIN ShortCondJumpWord :
         ShortCondJumpWord[x] = Instr =>
           (reg[7] = x[2] /\ output_short_cond_jump_address(Instr) = x[2])

\* the 4-bit st field read as a two's-complement number
SignExtendedShort == LET f == Field(Instr, 9, 4) IN IF f >= 8 THEN f + (WordModulus - 16) ELSE f

\* C11: with sel = 1 and loc = 0 the operand value used by execution is the
\* st field sign-extended from its top bit (fields 8..15 denote
\* 0xfff8..0xffff): ADD and ADC add the sign-extended value to op0, and the
\* carry is that of the sign-extended sum.
C11_ShortImmediateSignExtended ==
  ((Ran(op_add) \/ Ran(op_add_with_carry)) /\ Sel = 1 /\ Loc = 0) =>
    LET carry_in == IF Opcode = op_add_with_carry THEN Carry(Pre.status) ELSE 0
        sum == SignExtendedShort + SeenRegisters(1)[Dest] + carry_in
    IN /\ reg[Dest] = sum % WordModulus
       /\ Carry(status) = sum \div WordModulus

\* the last call disassembled the instruction at ip
Disassembled == trace # <<>> /\ Last.act = "disassemble"

\* the words of program p lie in memory m from address a on
ProgramAt(m, a, p) ==
  \A i \in 1 .. Len(p) : Readable(m, a + 2 * (i - 1)) /\ WordAt(m, a + 2 * (i - 1)) = p[i]

\* C12: for every supported opcode and every operand tuple the assembler
\* accepts, disassembling the assembled words succeeds and gives the
\* instruction back: mnemonic, registers in their positions, the immediate
\* or address value, and one word for register and short forms, two for
\* long forms.
C12_RoundTrip ==
  Disassembled =>
    \A k \in AssemblyCases :
      (ProgramAt(Pre.mem, PreIp, k.program) /\ instruction_supported(k.code, cfg.level)) =>
        Last.out = k.expected

\* the last call ended in a panic with a diagnostic of this kind: stored in
\* the debugger and reported as a breakpoint, or raised to the caller
PanickedWith(kind) ==
  IF cfg.dbg THEN res = breakpoint_result /\ exc = "none" /\ panic /\ message.kind = kind
  ELSE exc = "runtime_error" /\ what.kind = kind

\* the opcodes of the instruction set and those that need level v1
KnownOpcodes == {1, 2, 4, 16, 17, 42, 44, 62, 63}

LevelOneOpcodes == {42, 62}

\* C13: at level min a word whose opcode is JMP or NOP panics as an invalid
\* instruction without running the handler, at v1 both execute; MOV, LDR,
\* STR, ADD, ADC, the conditional jump and HLT execute at both levels;
\* every other opcode value panics as an invalid instruction at every level.
C13_LevelGating ==
  (Executed /\ Readable(Pre.mem, PreIp)) =>
    IF Opcode \notin KnownOpcodes \/ (Opcode \in LevelOneOpcodes /\ cfg.level = level_min)
    THEN /\ PanickedWith("Invalid instruction")
         /\ reg = SeenRegisters(1)
         /\ status = Pre.status
         /\ mem = Pre.mem
    ELSE /\ ~PanickedWith("Invalid instruction")
         /\ Opcode \in {62, 63} => reg = SeenRegisters(1)
         /\ Opcode = 42 => reg[7] = 2 * Field(Instr, 6, 9)
         /\ Opcode \in {1, 16, 17} => exc = "none"

\* a JMP refused at level min with a debugger attached
C13_Witness ==
  /\ Executed
  /\ Readable(Pre.mem, PreIp)
  /\ Opcode = 42
  /\ Field(Instr, 6, 9) # 0
  /\ cfg.level = level_min
  /\ PanickedWith("Invalid instruction")
  /\ panic
  /\ reg[7] = ToWord(PreIp + 2)

\* the diagnostic the last call owes: a refused fetch under the strict
\* policy, or an opcode that is not available; NoMessage when neither
OwedDiagnostic ==
  IF ~Readable(Pre.mem, PreIp)
  THEN IF cfg.strict THEN [kind |-> "read", a |-> PreIp, b |-> 0] ELSE NoMessage
  ELSE IF Opcode \notin KnownOpcodes \/ (Opcode \in LevelOneOpcodes /\ cfg.level = level_min)
       THEN [kind |-> "Invalid instruction", a |-> Instr, b |-> PreIp]
       ELSE NoMessage

\* C14: when the core panics with a debugger attached, the debugger's panic
\* flag becomes true, its message becomes the diagnostic and the step
\* returns (false, true); with no debugger the panic is raised to the
\* caller as a runtime error and nothing is returned or stored.
C14_Panic ==
  (Executed /\ OwedDiagnostic # NoMessage) =>
    IF cfg.dbg
    THEN /\ panic
         /\ message = OwedDiagnostic
         /\ res = breakpoint_result
         /\ exc = "none"
    ELSE /\ exc = "runtime_error"
         /\ what = OwedDiagnostic
         /\ panic = Pre.panic
         /\ message = Pre.message

\* the first panic of a machine with a debugger: a reserved opcode
C14_Witness ==
  /\ Executed
  /\ cfg.dbg
  /\ ~Pre.panic
  /\ Opcode = 3
  /\ panic
  /\ message = [kind |-> "Invalid instruction", a |-> Instr, b |-> PreIp]
  /\ res = breakpoint_result

RECURSIVE StepsFrom(_, _)
\* the contexts n single steps, each returning a result, lead to
StepsFrom(cs, n) ==
  IF n = 0 THEN cs
  ELSE StepsFrom({Context(o) : o \in {x \in UNION {execute_instruction(cfg, c) : c \in cs} :
                                        x.exc = "none"}}, n - 1)

\* the last call was a run of this kind and it returned
RunReturnedFrom(name) == trace # <<>> /\ Last.act = name /\ Last.exc = "none"

\* every logged instruction but the last continued
ContinuedUntilLast(log) == \A i \in 1 .. (Len(log) - 1) : log[i] = continue_result

\* C15: run-to-halt executes instructions one after another and returns
\* right after the first whose result has keep_going = false, executing
\* nothing after it and never retrying it; it returns true iff that
\* instruction halted cleanly and false iff it reported a breakpoint.
C15_RunToHalt ==
  RunReturnedFrom("run") =>
    LET log == Last.log
        n == Len(log)
    IN /\ n >= 1
       /\ ContinuedUntilLast(log)
       /\ ~log[n].keep_going
       /\ Last.out = ~log[n].breakpoint
       /\ res = log[n]
       /\ Current \in StepsFrom({Pre}, n)

\* a run through the whole memory that ends in the panic of the fetch
\* beyond it and reports false
C15_Witness ==
  /\ RunReturnedFrom("run")
  /\ Len(Last.log) = MemWords + 1
  /\ Last.log[MemWords + 1] = breakpoint_result
  /\ Last.out = FALSE
  /\ panic
  /\ message = address_error(MemSize, "read")

\* C16: run-N-steps with N >= 1 returns after executing s instructions,
\* 1 <= s <= N, s counting every executed instruction including the one
\* that stopped the run; s < N only if the s-th returned keep_going =
\* false; nothing is executed after such an instruction; halted is true
\* iff the last executed instruction returned (false, false).  With N = 0
\* nothing is executed and (false, 0) is returned.
C16_RunSteps ==
  RunReturnedFrom("steps") =>
    LET log == Last.log
        N == Last.arg
        halted == Last.out[1]
        count == Last.out[2]
    IN IF N = 0 THEN log = <<>> /\ Last.out = <<FALSE, 0>> /\ Current = Pre
       ELSE /\ 1 <= count /\ count <= N
            /\ count = Len(log)
            /\ count < N => ~log[count].keep_going
            /\ ContinuedUntilLast(log)
            /\ halted = (log[Len(log)] = halt_result)
            /\ Current \in StepsFrom({Pre}, Len(log))

\* the last call ended in a panic with diagnostic d
PanickedWithDiagnostic(d) ==
  IF cfg.dbg THEN res = breakpoint_result /\ exc = "none" /\ panic /\ message = d
  ELSE exc = "runtime_error" /\ what = d

AddressDiagnostic(access, address) == [kind |-> access, a |-> address, b |-> 0]

\* the last call was an LDR or STR whose operands could be fetched
RanAccess == RanOperands(op_load) \/ RanOperands(op_store)

AccessKind == IF Opcode = op_load THEN "read" ELSE "write"

\* nothing but ip moved: the registers are as the handler saw them
NothingTouched == reg = SeenRegisters(Words) /\ status = Pre.status /\ mem = Pre.mem

\* C17: under the strict policy every memory access at an odd address
\* raises a panic before memory is touched: LDR and STR data accesses, and
\* the fetch of an instruction (hence of its immediate word) when ip is
\* odd, so that no instruction is decoded from an odd address.
C17_StrictAlignment ==
  cfg.strict =>
    /\ (Executed /\ PreIp % 2 = 1) =>
         /\ PanickedWithDiagnostic(AddressDiagnostic("read", PreIp))
         /\ RegistersKept
         /\ status = Pre.status
         /\ mem = Pre.mem
    /\ (RanAccess /\ SecondOperand % 2 = 1) =>
         /\ PanickedWithDiagnostic(AddressDiagnostic(AccessKind, SecondOperand))
         /\ NothingTouched

\* a fetch refused at an odd ip inside the memory, after a MOV to ip
C17_Witness ==
  /\ cfg.strict
  /\ cfg.dbg
  /\ Executed
  /\ PreIp % 2 = 1
  /\ PreIp < Len(mem)
  /\ panic
  /\ message = AddressDiagnostic("read", PreIp)

\* C18: under the strict policy a load or store at or beyond the memory
\* size raises a panic and has no effect (a failed LDR leaves its
\* destination, a failed STR every memory byte unchanged); memory::load and
\* memory::store are never called outside their domain in strict mode.
C18_StrictBounds ==
  cfg.strict =>
    /\ exc # "undefined"
    /\ (RanAccess /\ SecondOperand >= Len(Pre.mem)) =>
         /\ PanickedWithDiagnostic(AddressDiagnostic(AccessKind, SecondOperand))
         /\ NothingTouched

\* a STR to the even address just past the memory is refused
C18_Witness ==
  /\ cfg.strict
  /\ RanOperands(op_store)
  /\ SecondOperand = Len(Pre.mem)
  /\ PanickedWithDiagnostic(AddressDiagnostic("write", SecondOperand))
  /\ mem = Pre.mem

\* the last call was an LDR / STR outside the memory under the normal policy
UncheckedAccess == ~cfg.strict /\ RanAccess /\ SecondOperand >= Len(Pre.mem)

\* C19: without the strict policy an LDR from an address outside
\* the memory yields zero and a STR to such an address is a no-op on
\* memory; neither stops execution.
C19_ZeroFill ==
  UncheckedAccess =>
    /\ exc = "none"
    /\ res = continue_result
    /\ mem = Pre.mem
    /\ Opcode = op_load => reg[Dest] = 0

ZeroRegisters == [i \in 0 .. (num_registers - 1) |-> 0]

\* the step appends a reset to the history
ResetStep == Len(trace') = Len(trace) + 1 /\ trace'[Len(trace')].act = "reset"

\* C20: from any reachable state machine::reset() sets all eight registers
\* and the status register to zero and every byte of main memory to zero,
\* keeps the memory size and the feature level, and keeps the same
\* debugger attached (with what the debugger holds).
C20_Reset ==
  [][ResetStep =>
       /\ reg' = ZeroRegisters
       /\ status' = 0
       /\ \A k \in 1 .. Len(mem') : mem'[k] = 0
       /\ Len(mem') = Len(mem)
       /\ cfg' = cfg
       /\ panic' = panic
       /\ message' = message]_vars

\* a reset of a machine whose registers, status and memory were not zero,
\* after an instruction that wrote to memory
C20_Witness ==
  /\ Len(trace) >= 2
  /\ Last.act = "reset"
  /\ trace[Len(trace) - 1].act = "execute"
  /\ Pre.mem # trace[Len(trace) - 1].pre.mem
  /\ Pre.reg # ZeroRegisters
  /\ Pre.status # 0
  /\ \E k \in 1 .. Len(Pre.mem) : Pre.mem[k] # 0
  /\ reg = ZeroRegisters
  /\ status = 0
  /\ Len(mem) = Len(Pre.mem)
  /\ \A k \in 1 .. Len(mem) : mem[k] = 0

\* the last call loaded an image
Loaded == trace # <<>> /\ Last.act = "load"

\* C21: loading an image of n bytes writes the image bytes to main-memory
\* offsets 0..n-1 and leaves the bytes at offsets >= n, all registers and
\* the status register unchanged; an image larger than the memory is
\* rejected with an error and memory and registers are left unchanged.
C21_LoadImage ==
  (Loaded /\ Last.arg # NoFile) =>
    LET image == Last.arg
        n == Len(image)
    IN /\ reg = Pre.reg
       /\ status = Pre.status
       /\ Len(mem) = Len(Pre.mem)
       /\ IF n > Len(Pre.mem)
          THEN exc = "out_of_range" /\ mem = Pre.mem
          ELSE /\ exc = "none"
               /\ \A k \in 1 .. Len(mem) : mem[k] = (IF k <= n THEN image[k] ELSE Pre.mem[k])

\* an image shorter than the memory loaded over different bytes, on a
\* machine that executed an instruction before
C21_Witness ==
  /\ Loaded
  /\ Len(trace) = 2
  /\ trace[1].act = "execute"
  /\ Len(Last.arg) \in 1 .. (Len(mem) - 1)
  /\ exc = "none"
  /\ mem # Pre.mem
  /\ \E k \in (Len(Last.arg) + 1) .. Len(mem) : mem[k] # 0

\* the last call ran an instruction of the table to its end: no panic, no
\* exception
Succeeded ==
  /\ Executed
  /\ Readable(Pre.mem, PreIp)
  /\ Opcode \in FormOpcodes
  /\ instruction_supported(Opcode, cfg.level)
  /\ exc = "none"
  /\ res # breakpoint_result

\* the instruction has a destination register and it is ip
WritesIp == Opcode \in {op_move, op_load, op_add, op_add_with_carry} /\ Dest = 7

TakenJump == Opcode = op_jump \/ (Opcode = op_cond_jump /\ CondTaken)

\* the number of words of the instruction by its form
FormWords ==
  IF Opcode \in {op_move, op_load, op_store, op_add, op_add_with_carry} THEN Words
  ELSE IF Opcode \in {op_jump, op_cond_jump} THEN JumpWords
  ELSE 1

\* what the disassembler reports for the instruction the last call ran
DisassembledWords == disassemble(Instr, test_load(Pre.mem, PreIp + 2).val, cfg.level).words

\* C22 as stated: after a successfully executed instruction fetched at a
\* that is neither a taken jump nor writes ip as its destination,
\* ip = (a + 2k) mod 2^16 with k = 1 for register and short forms and k = 2
\* for forms with an immediate word; k equals the word count the
\* disassembler reports for the same instruction.
C22_IpAdvanceAndWords ==
  (Succeeded /\ ~TakenJump /\ ~WritesIp) =>
    /\ reg[7] = ToWord(PreIp + 2 * FormWords)
    /\ DisassembledWords = FormWords

\* C22 as the code has it: ip advances by k words as stated; the
\* disassembler reports k words whenever it accepts the instruction, which
\* it does for every instruction that executes under the strict policy
\* while the debugger holds no panic of an earlier step.  Without the
\* strict policy, and under it once a panic is pending and the audit is
\* skipped, an instruction with stray bits executes while the disassembler
\* reports no words for it.
C22_IpAdvance ==
  (Succeeded /\ ~TakenJump /\ ~WritesIp) =>
    /\ reg[7] = ToWord(PreIp + 2 * FormWords)
    /\ DisassembledWords \in {0, FormWords}
    /\ (cfg.strict /\ ~Pre.panic) => DisassembledWords = FormWords

\* a conditional jump with an address word that was not taken: ip is two
\* words on and the disassembler reports two words
C22_Witness ==
  /\ Succeeded
  /\ Opcode = op_cond_jump
  /\ JumpLong
  /\ ~CondTaken
  /\ reg[7] = ToWord(PreIp + 4)
  /\ DisassembledWords = 2

\* the last call constructed and assembled a short value
Assembled == trace # <<>> /\ Last.act = "assemble"

\* sign bit of the three short types
ShortSignBit(type) ==
  CASE type = "short_immediate" -> 8
    [] type = "short_jump_address" -> 512
    [] OTHER -> 32

\* v restricted to the value and sign bits of the type (the jump types have
\* no bit 0), then sign-extended from the sign bit
SignExtensionOf(type, v) ==
  LET sign == ShortSignBit(type)
      low == v % (2 * sign)
      kept == IF type = "short_immediate" THEN low ELSE low - (low % 2)
  IN IF kept >= sign THEN kept + (WordModulus - 2 * sign) ELSE kept

\* C23: constructing a short immediate, short jump address or short
\* conditional jump address with value v succeeds iff v equals the sign
\* extension (from sign bit 0x8, 0x200 or 0x20) of v restricted to the
\* type's value and sign bits; every other v, any odd jump address
\* included, is rejected with an out-of-range error and no instruction word
\* is produced.
C23_ShortRange ==
  Assembled =>
    LET type == Last.arg[1]
        v == Last.arg[2]
    IN IF v = SignExtensionOf(type, v)
       THEN exc = "none" /\ Len(Last.out) = 1 /\ WordAt(mem, PreIp) = Last.out[1]
       ELSE /\ exc = "out_of_range"
            /\ what.kind = "short immediate constant too large"
            /\ Last.out = <<>>
            /\ mem = Pre.mem

\* the smallest negative short jump address is accepted, an odd one and
\* the value below the range are what the rejection is about
C23_Witness ==
  /\ Assembled
  /\ Len(trace) = 2
  /\ trace[1].act = "assemble"
  /\ trace[1].arg = <<"short_jump_address", WordModulus - 513>>
  /\ trace[1].exc = "out_of_range"
  /\ Last.arg = <<"short_jump_address", WordModulus - 512>>
  /\ exc = "none"
  /\ Last.out # <<>>

\* the last call rendered a diff
Rendered == trace # <<>> /\ Last.act = "render"

\* the text holds the sequence
Contains(text, sequence) ==
  \E i \in 1 .. (Len(text) - Len(sequence) + 1) :
    SubSeq(text, i, i + Len(sequence) - 1) = sequence

\* C24: rendering a diff whose previous snapshot equals the current one
\* (registers view and memory view) marks no field as changed and
\* produces the same output as rendering the current snapshot alone.
C24_DiffOfEqual ==
  (Rendered /\ Last.arg.previous = Last.arg.current) =>
    LET current == Last.arg.current
        ctx == Last.arg.ctx
    IN /\ Last.out.registers = format_registers(as_value(current.registers), ctx)
       /\ Last.out.memory = format_memory_view(as_value(current.memory), ctx)
       /\ ~Contains(Last.out.registers, bright_red)
       /\ ~Contains(Last.out.memory, bright_red)

\* a coloured rendering of equal snapshots after an instruction: the
\* memory line shows the background colour of the word at ip
C24_Witness ==
  /\ Rendered
  /\ Len(trace) = 2
  /\ trace[1].act = "execute"
  /\ Last.arg.ctx
  /\ Last.arg.previous = Last.arg.current
  /\ Contains(Last.out.registers, bright_white)
  /\ Contains(Last.out.memory, green_background)

\* the message of the reserved-bits audit
AuditRejected ==
  IF cfg.dbg THEN panic /\ message.kind = "Invalid non-zero bits in instruction"
  ELSE exc = "runtime_error" /\ what.kind = "Invalid non-zero bits in instruction"

\* the first words of the programs the assembler produces at a level
AssembledWords ==
  [level \in {level_min, level_v1} |-> {p[1] : p \in AssembledPrograms(level)}]

\* C25: every instruction word the assembler can produce is a legal
\* encoding: executed under the strict policy it is not rejected by the
\* reserved-bits audit, and the disassembler returns words > 0 for it.
C25_AssembledLegal ==
  (trace # <<>> /\ Readable(Pre.mem, PreIp) /\ Instr \in AssembledWords[cfg.level]) =>
    /\ (Executed /\ cfg.strict /\ ~Pre.panic) => ~AuditRejected
    /\ Disassembled => Last.out.words > 0

C25_Witness ==
  /\ Len(trace) = 2
  /\ trace[1].act = "disassemble"
  /\ trace[1].out.words = 1
  /\ Executed
  /\ cfg.strict
  /\ PreIp = 0
  /\ Instr = assemble(op_add, make_operands_acc_short(7, WordModulus - 1))
  /\ Instr \in AssembledWords[cfg.level]
  /\ res = continue_result
  /\ exc = "none"

NoClause == 0 - 1

\* the clause of the reserved-bits audit a word violates, read from the
\* bit layout of the word: the reason code, or NoClause
ViolatedClause(w) ==
  LET code == Field(w, 0, 6)
  IN CASE code \in {op_noop, op_halt} ->
            IF Field(w, 6, 10) # 0 THEN 0 ELSE NoClause
       [] code \in {op_move, op_load, op_store} ->
            IF Field(w, 15, 1) = 0
            THEN IF Field(w, 12, 3) # 0 THEN 2 ELSE NoClause
            ELSE IF Field(w, 13, 1) = 1 THEN 7
            ELSE IF Field(w, 14, 1) = 1 /\ Field(w, 9, 4) # 0 THEN 3
            ELSE NoClause
       [] code \in {op_add, op_add_with_carry} ->
            IF Field(w, 15, 1) = 1 /\ Field(w, 14, 1) = 1 /\ Field(w, 12, 1) = 1 THEN 4
            ELSE NoClause
       [] code = op_jump ->
            IF Field(w, 15, 1) = 1 /\ Field(w, 6, 9) # 0 THEN 6 ELSE NoClause
       [] code = op_cond_jump ->
            IF Field(w, 15, 1) = 1 /\ Field(w, 9, 5) # 0 THEN 6
            ELSE IF Field(w, 8, 1) = 1 THEN 5
            ELSE NoClause
       [] OTHER -> NoClause

\* the diagnostic the last step left, if it left one
Diagnostic == IF cfg.dbg THEN message ELSE what

\* the last step panicked: by the debugger's flag and a breakpoint result,
\* or by a runtime error
StepPanicked ==
  IF cfg.dbg THEN panic /\ res = breakpoint_result /\ exc = "none"
  ELSE exc = "runtime_error"

\* the handler of the instruction panicked itself, on a memory access
HandlerPanicked == StepPanicked /\ Diagnostic.kind \in {"read", "write"}

\* the last step executed the word of a supported opcode under the strict
\* policy
RanStrict ==
  /\ Executed
  /\ cfg.strict
  /\ Readable(Pre.mem, PreIp)
  /\ Opcode \in SwitchOpcodes
  /\ instruction_supported(Opcode, cfg.level)

AuditDiagnostic(w, reason) ==
  [kind |-> "Invalid non-zero bits in instruction", a |-> w, b |-> reason]

\* C26: on a machine with no panic pending whose handler did not panic
\* itself, the strict audit rejects the executed word exactly when it
\* violates one of the clauses, with the reason code of the clause (0, 2, 7,
\* 3, 4, 6 before 5), and accepts every other word of a supported opcode.
C26_AuditClauses ==
  (RanStrict /\ ~Pre.panic /\ ~HandlerPanicked) =>
    IF ViolatedClause(Instr) = NoClause THEN ~StepPanicked
    ELSE StepPanicked /\ Diagnostic = AuditDiagnostic(Instr, ViolatedClause(Instr))

\* a conditional jump with aloc, an address bit and bit 8 set: reason 6
C26_Witness ==
  /\ RanStrict
  /\ ~Pre.panic
  /\ Opcode = op_cond_jump
  /\ Field(Instr, 15, 1) = 1
  /\ Field(Instr, 9, 5) # 0
  /\ Field(Instr, 8, 1) = 1
  /\ StepPanicked
  /\ Diagnostic = AuditDiagnostic(Instr, 6)

\* C27 as stated: every executed word that violates an audit clause makes
\* its step report a panic, whatever happened in earlier steps.
C27_AuditAlways ==
  (RanStrict /\ ViolatedClause(Instr) # NoClause) => StepPanicked

\* C27: a step that executes a word violating an audit clause reports a
\* panic unless the debugger already holds one; then the audit is skipped:
\* the step returns what the handler returned and leaves the flag and the
\* message as they were, unless the handler panicked itself.
C27_AuditUnlessPanic ==
  (RanStrict /\ ViolatedClause(Instr) # NoClause) =>
    IF cfg.dbg /\ Pre.panic
    THEN /\ panic
         /\ exc = "none"
         /\ (res = breakpoint_result /\ message.kind \in {"read", "write"})
              \/ (res # breakpoint_result /\ message = Pre.message)
    ELSE StepPanicked
           /\ (HandlerPanicked \/ Diagnostic = AuditDiagnostic(Instr, ViolatedClause(Instr)))

\* HLT with operand bits, executed after a step that panicked
C27_Witness ==
  /\ Len(trace) = 2
  /\ trace[1].act = "execute"
  /\ RanStrict
  /\ cfg.dbg
  /\ Pre.panic
  /\ Instr = 447
  /\ ViolatedClause(Instr) = 0
  /\ res = halt_result
  /\ message = Pre.message

\* the last call took a snapshot of the registers
Viewed == trace # <<>> /\ Last.act = "state_view"

\* C28: state_view never fails and never reads outside the memory: for
\* every ip and every memory it delivers one view, with the registers and
\* the status copied, the words at ip mod size and (ip + 2) mod size when
\* ip is even and the memory is not empty, and no instruction otherwise.
C28_StateView ==
  Viewed =>
    LET size == Len(Pre.mem)
        fetched == size # 0 /\ PreIp % 2 = 0
    IN /\ fetched => (PreIp % size) + 1 < size /\ ((PreIp + 2) % size) + 1 < size
       /\ Last.out =
            {[kind |-> "value", named |-> Pre.reg, status |-> Pre.status,
              instruction |-> IF fetched
                              THEN <<WordAt(Pre.mem, PreIp % size),
                                     WordAt(Pre.mem, (PreIp + 2) % size)>>
                              ELSE <<>>]}

\* ip on the last word of a memory of six bytes, after an instruction: the
\* second word is the one at address 0
C28_Witness ==
  /\ Viewed
  /\ Len(trace) = 2
  /\ trace[1].act = "execute"
  /\ Len(Pre.mem) = 6
  /\ PreIp = 4
  /\ \E v \in Last.out : v.instruction = <<WordAt(Pre.mem, 4), WordAt(Pre.mem, 0)>>

\* C29: from a status with no bit other than C and Z (the initial and the
\* reset status among them), after any sequence of executed instructions
\* and resets in any mode and at any level the status has no bit set other
\* than C (bit 0) and Z (bit 1).
C29_StatusFlags == exc # "undefined" => Field(status, 2, 14) = 0

\* ADD r3, r1, r4 with 1 + 0xffff from status 0: zero and carry
C29_Witness ==
  /\ Len(trace) = 1
  /\ Executed
  /\ Opcode = op_add
  /\ Sel = 0
  /\ Pre.status = 0
  /\ Pre.reg[1] + Pre.reg[4] = WordModulus
  /\ exc = "none"
  /\ status = 3

\* the status bits other than C and Z
StrayBits(s) == Field(s, 2, 14)

\* C30 as stated: under strict execution a status word with a bit other
\* than C and Z set is rejected with a panic when an instruction is
\* executed.
C30_StatusValidated ==
  (RanStrict /\ ~Pre.panic /\ StrayBits(Pre.status) # 0) => StepPanicked

\* C30: strict execution does not validate the status: with stray status
\* bits a step panics only for a memory access of its handler or for a
\* violated audit clause, ADD and ADC that complete overwrite the status
\* with C and Z alone, and every other instruction keeps the stray bits.
C30_StatusNotValidated ==
  (RanStrict /\ ~Pre.panic /\ StrayBits(Pre.status) # 0) =>
    /\ StepPanicked =>
         \/ HandlerPanicked
         \/ /\ ViolatedClause(Instr) # NoClause
            /\ Diagnostic = AuditDiagnostic(Instr, ViolatedClause(Instr))
    /\ ViolatedClause(Instr) = NoClause /\ ~HandlerPanicked => ~StepPanicked
    /\ IF Opcode \in {op_add, op_add_with_carry}
       THEN ~HandlerPanicked => StrayBits(status) = 0
       ELSE StrayBits(status) = StrayBits(Pre.status)

\* MOV r2, r1 with status 0x8006: executed, no panic, bit 15 still set
C30_Witness ==
  /\ Len(trace) = 1
  /\ RanStrict
  /\ Opcode = op_move
  /\ Sel = 0
  /\ ViolatedClause(Instr) = NoClause
  /\ Pre.status = 32774
  /\ res = continue_result
  /\ exc = "none"
  /\ ~panic
  /\ status = 32772

\* a memory window of one word was rendered with the machine state
RenderedWord ==
  /\ Rendered
  /\ Len(Last.arg.current.memory.data) = 2
  /\ Last.arg.current.memory.state # <<>>

\* the address and the registers of that window
WordAddress == Last.arg.current.memory.base

WordState == Last.arg.current.memory.state

\* the rendering holds a background colour sequence
HasBackground(text) == Contains(text, "\\033[4") \/ Contains(text, "\\033[10")

\* C31 as stated: a memory window word gets a register background colour
\* exactly when its address equals one of r0..r5, sp or ip, and ip's colour
\* is chosen on ties.
C31_AnyRegisterColours ==
  (RenderedWord /\ Last.arg.ctx) =>
    /\ HasBackground(Last.out.memory)
         <=> (\E n \in 0 .. (num_registers - 1) : WordAddress = WordState[n])
    /\ (WordAddress = WordState[7]) => Contains(Last.out.memory, green_background)

\* C31: in the coloured rendering a memory window word gets a background
\* colour exactly when its address equals sp or ip: green for ip, also
\* on ties, and yellow for sp otherwise; r0..r5 colour no word, and the
\* plain rendering has no colour.
C31_StackAndIpColours ==
  RenderedWord =>
    LET text == Last.out.memory
        at_ip == WordAddress = WordState[7]
        at_sp == WordAddress = WordState[6]
    IN /\ HasBackground(text) <=> (Last.arg.ctx /\ (at_ip \/ at_sp))
       /\ Contains(text, green_background) <=> (Last.arg.ctx /\ at_ip)
       /\ Contains(text, yellow_background) <=> (Last.arg.ctx /\ at_sp /\ ~at_ip)

\* the word at the address held by both sp and ip was rendered green
C31_Witness ==
  /\ RenderedWord
  /\ Last.arg.ctx
  /\ WordAddress = WordState[7]
  /\ WordAddress = WordState[6]
  /\ Contains(Last.out.memory, green_background)

\* the i-th call was a command of the interactive session
Commanded(i) == trace[i].act = "command"

\* the machine and the debugger after the i-th call
After(i) == IF i < Len(trace) THEN trace[i + 1].pre ELSE Current

\* the session after the i-th command
SessionAfter(i) == trace[i].after

StepCommand(i) == trace[i].arg \in {"s", "x"}

\* 'r', or 'l' with a path, which may be empty
ResetCommand(i) == trace[i].arg = "r" \/ starts_with(trace[i].arg, "l ")

\* the i-th command executed and its run ended with a halt or left a panic
EndedRun(i) ==
  /\ Commanded(i)
  /\ trace[i].ran
  /\ trace[i].exc = "none"
  /\ \/ trace[i].log # <<>> /\ trace[i].log[Len(trace[i].log)] = halt_result
     \/ After(i).panic

\* a run ended before the i-th command and no reset followed it
FinishedBefore(i) ==
  \E j \in 1 .. (i - 1) :
    EndedRun(j) /\ \A k \in (j + 1) .. (i - 1) : ~ResetCommand(k)

SameMachine(c, d) == c.reg = d.reg /\ c.status = d.status /\ c.mem = d.mem

\* C32: once a run has finished (halt or debugger panic), every later 's'
\* or 'x' executes no instruction and leaves registers and memory
\* unchanged until 'r' or 'l <path>' resets the machine; the reset starts
\* a fresh unfinished session and clears the debugger's panic flag and
\* message, so the next 's' or 'x' executes again.
C32_FinishedUntilReset ==
  \A i \in 1 .. Len(trace) :
    Commanded(i) =>
      /\ (StepCommand(i) /\ FinishedBefore(i)) =>
           /\ ~trace[i].ran
           /\ trace[i].log = <<>>
           /\ SameMachine(After(i), trace[i].pre)
      /\ ResetCommand(i) =>
           /\ ~SessionAfter(i).finished
           /\ ~After(i).panic
           /\ After(i).message = NoMessage
           /\ (i < Len(trace) /\ Commanded(i + 1) /\ StepCommand(i + 1)) => trace[i + 1].ran

\* a run ended with a panic, the next step executed nothing, and 'r' left
\* an unfinished session and a debugger without panic and message
C32_Witness ==
  /\ Len(trace) = 3
  /\ \A i \in 1 .. 3 : Commanded(i)
  /\ trace[1].arg = "x"
  /\ trace[1].ran
  /\ After(1).panic
  /\ SessionAfter(1).finished
  /\ trace[2].arg = "s"
  /\ ~trace[2].ran
  /\ SameMachine(After(2), After(1))
  /\ trace[3].arg = "r"
  /\ ~session.finished
  /\ ~panic
  /\ message = NoMessage

\* the snapshot of a session: registers, status and observed memory
Snapshot(s) == <<s.previous_state.reg, s.previous_state.status, s.previous_memory>>

\* the snapshot that equals the machine c
SnapshotOf(c) == <<c.reg, c.status, SubSeq(c.mem, 1, memory_debug_size)>>

\* C33 as stated: whenever the session executes, the previous snapshot
\* equals the machine's state immediately before the execution, and every
\* command that executes nothing leaves the snapshot unchanged.
C33_SnapshotKept ==
  \A i \in 1 .. Len(trace) :
    Commanded(i) =>
      /\ trace[i].ran => Snapshot(SessionAfter(i)) = SnapshotOf(trace[i].pre)
      /\ ~trace[i].ran => Snapshot(SessionAfter(i)) = Snapshot(trace[i].before)

\* C33: whenever the session executes ('s' or 'x' on an unfinished
\* session), the previous snapshot equals the machine's state immediately
\* before the execution and the execution does not alter it; a command
\* that executes nothing and does not reset leaves the snapshot unchanged;
\* 'r' and 'l' with an empty path replace it with the all-zero snapshot of
\* a new session, and 'l <path>' with the machine's state after the load.
C33_SnapshotBeforeExecution ==
  \A i \in 1 .. Len(trace) :
    Commanded(i) =>
      /\ trace[i].ran => Snapshot(SessionAfter(i)) = SnapshotOf(trace[i].pre)
      /\ (~trace[i].ran /\ ~ResetCommand(i)) =>
           Snapshot(SessionAfter(i)) = Snapshot(trace[i].before)
      /\ (ResetCommand(i) /\ trace[i].arg \in {"r", "l "}) =>
           Snapshot(SessionAfter(i))
             = <<[n \in 0 .. (num_registers - 1) |-> 0], 0, [k \in 1 .. memory_debug_size |-> 0]>>
      /\ (ResetCommand(i) /\ trace[i].arg \notin {"r", "l "}) =>
           Snapshot(SessionAfter(i)) = SnapshotOf(After(i))

\* a step changed a register and the observed memory, the snapshot holds
\* the state before it, and the next command executed nothing
C33_Witness ==
  /\ Len(trace) >= 2
  /\ Commanded(1)
  /\ Commanded(2)
  /\ trace[1].arg = "s"
  /\ trace[1].ran
  /\ After(1).reg # trace[1].pre.reg
  /\ SubSeq(After(1).mem, 1, memory_debug_size) # SubSeq(trace[1].pre.mem, 1, memory_debug_size)
  /\ Snapshot(SessionAfter(1)) = SnapshotOf(trace[1].pre)
  /\ trace[2].arg = "h"
  /\ Snapshot(SessionAfter(2)) = Snapshot(SessionAfter(1))

\* C34: the debugger's panic flag is sticky: once set it stays set through
\* execute calls, reset_message calls and machine resets, and only
\* reset_panic clears it, together with the message; a step that does
\* not panic changes neither the flag nor the message.  Storing a debug
\* message replaces the message and keeps the flag as well.
C34_PanicSticky ==
  \A i \in 1 .. Len(trace) :
    LET before == trace[i].pre
        after == After(i)
    IN /\ (before.panic /\ trace[i].act # "reset_panic") => after.panic
       /\ trace[i].act = "reset_panic" => (~after.panic /\ after.message = NoMessage)
       /\ trace[i].act = "reset_message" =>
            (after.panic = before.panic /\ after.message = NoMessage)
       /\ trace[i].act = "reset" =>
            (after.panic = before.panic /\ after.message = before.message)
       /\ trace[i].act = "store_message" =>
            (after.panic = before.panic /\ after.message = trace[i].arg)
       /\ (trace[i].act = "execute" /\ trace[i].res # breakpoint_result) =>
            (after.panic = before.panic /\ after.message = before.message)

\* a step panicked and the machine reset that followed kept the flag and
\* the message
C34_Witness ==
  /\ Len(trace) = 2
  /\ trace[1].act = "execute"
  /\ ~trace[1].pre.panic
  /\ After(1).panic
  /\ After(1).message # NoMessage
  /\ trace[2].act = "reset"
  /\ panic
  /\ message = After(1).message

\* the configurations other than strict with the debugger, at the level of
\* the machine
OtherPolicies == {cf \in Configurations : cf.level = cfg.level /\ ~(cf.strict /\ cf.dbg)}

\* the last step ran under strict with the debugger and reported no panic
QuietStrictStep ==
  /\ Executed
  /\ cfg.strict
  /\ cfg.dbg
  /\ exc = "none"
  /\ res # breakpoint_result

\* the step from the same state under configuration cf leaves what the last
\* step left
SameStepUnder(cf) ==
  \A o \in execute_instruction(cf, Pre) :
    /\ o.exc = "none"
    /\ o.reg = reg
    /\ o.status = status
    /\ o.mem = mem
    /\ o.res = res

\* C35 as stated: for every state and every single step on which the
\* strict+debug configuration reports no panic, the other three
\* configurations produce the same registers, status, memory and result.
C35_PoliciesAgree ==
  QuietStrictStep => \A cf \in OtherPolicies : SameStepUnder(cf)

\* C35: for every state in which the debugger holds no earlier panic and
\* every single step on which the strict+debug configuration reports no
\* panic, the other three configurations produce the same registers,
\* status, memory and result; with an earlier panic pending the
\* strict+debug step skips the audit, and strict without a debugger
\* raises where it reported nothing.
C35_PoliciesAgreeUnlessPending ==
  /\ (QuietStrictStep /\ ~Pre.panic) => \A cf \in OtherPolicies : SameStepUnder(cf)
  /\ (QuietStrictStep /\ Pre.panic) =>
       \A cf \in OtherPolicies : ~cf.strict => SameStepUnder(cf)

\* a store executed under strict with the debugger without a panic
C35_Witness ==
  /\ QuietStrictStep
  /\ ~Pre.panic
  /\ Opcode = op_store
  /\ mem # Pre.mem
  /\ res = continue_result

\* the last step panicked with the invalid-instruction diagnostic
InvalidInstructionPanic == StepPanicked /\ Diagnostic.kind = "Invalid instruction"

\* outcome o of a step equals what the last step left
SameOutcome(o) ==
  /\ o.reg = reg
  /\ o.status = status
  /\ o.mem = mem
  /\ o.res = res
  /\ o.exc = exc
  /\ o.panic = panic
  /\ o.message = message
  /\ o.what = what

\* C36: feature levels are monotonic: if a step at level min does not
\* panic with an invalid-instruction error, the same step at level v1
\* yields the identical result, registers, status and memory (the only
\* outcome under the strict policy, one of the outcomes where the
\* non-strict step is undefined).
C36_LevelsMonotonic ==
  (Executed /\ cfg.level = level_min /\ exc # "undefined" /\ ~InvalidInstructionPanic) =>
    LET outs == execute_instruction([cfg EXCEPT !.level = level_v1], Pre)
    IN /\ \E o \in outs : SameOutcome(o)
       /\ cfg.strict => \A o \in outs : SameOutcome(o)

\* ADD with a long immediate executed at level min
C36_Witness ==
  /\ Succeeded
  /\ cfg.level = level_min
  /\ Opcode = op_add
  /\ LongForm
  /\ reg[Dest] # Pre.reg[Dest]
  /\ res = continue_result

\* the instruction at ip was disassembled and then executed under the
\* strict policy, with no panic pending and no failed memory access
DisassembledThenRan ==
  /\ Len(trace) = 2
  /\ trace[1].act = "disassemble"
  /\ Executed
  /\ cfg.strict
  /\ ~Pre.panic
  /\ Readable(Pre.mem, PreIp)
  /\ Readable(Pre.mem, ImmAddress)
  /\ ~HandlerPanicked

\* the step panicked for the word: invalid opcode or non-zero reserved bits
WordRejected ==
  /\ StepPanicked
  /\ Diagnostic.kind \in {"Invalid instruction", "Invalid non-zero bits in instruction"}

\* C37: the disassembler and the strict executor accept the same encodings:
\* for every 16-bit word and both levels, disassemble fails (words = 0)
\* exactly when strict execution of the word, with valid memory accesses
\* and no earlier panic, panics for an invalid opcode or non-zero reserved
\* bits.
C37_SameEncodings ==
  DisassembledThenRan => ((trace[1].out.words = 0) <=> WordRejected)

\* MOV with a short immediate and the accumulator switch set is rejected by
\* both
C37_Witness ==
  /\ DisassembledThenRan
  /\ Opcode = op_move
  /\ Sel = 1
  /\ ViolatedClause(Instr) # NoClause
  /\ trace[1].out.words = 0
  /\ WordRejected

\* the last step ran a word that violates an audit clause under the strict
\* policy, with no panic pending, and its handler did not panic
AuditRejectedAfterHandler ==
  /\ RanStrict
  /\ ~Pre.panic
  /\ ViolatedClause(Instr) # NoClause
  /\ ~HandlerPanicked

\* C38: the strict audit runs after the handler: when it rejects the word,
\* the handler's updates of the destination register, the memory, the
\* flags and ip have been applied and stay, as the step without the strict
\* policy leaves them, and the step reports the panic: with a debugger
\* the result is (false, true), also for HLT with non-zero operand bits.
C38_AuditAfterHandler ==
  AuditRejectedAfterHandler =>
    /\ StepPanicked
    /\ Diagnostic = AuditDiagnostic(Instr, ViolatedClause(Instr))
    /\ cfg.dbg => res = breakpoint_result
    /\ \A o \in execute_instruction([cfg EXCEPT !.strict = FALSE], Pre) :
         /\ o.reg = reg
         /\ o.status = status
         /\ o.mem = mem
    /\ Opcode = op_halt => (reg[7] = ToWord(PreIp + 2) /\ mem = Pre.mem)

\* a STR with stray bits changed the memory and the step reported the panic
C38_Witness ==
  /\ AuditRejectedAfterHandler
  /\ cfg.dbg
  /\ Opcode = op_store
  /\ mem # Pre.mem
  /\ reg[7] # PreIp
  /\ res = breakpoint_result
  /\ panic

\* the last call was a step under the strict policy with the debugger
StrictDebugStep == Executed /\ cfg.strict /\ cfg.dbg

\* the step reported a failed read at the address and changed nothing but
\* ip, which is past the words fetched
FetchRefused(address, words) ==
  /\ exc = "none"
  /\ res = breakpoint_result
  /\ panic
  /\ message = AddressDiagnostic("read", address)
  /\ reg = SeenRegisters(words)
  /\ status = Pre.status
  /\ mem = Pre.mem

\* C39: under strict with the debugger, when the fetch of the instruction
\* word fails (odd or out-of-range ip) the step returns (false, true) with
\* ip already advanced by 2 (mod 2^16) and everything else unchanged; when
\* the fetch of the long immediate or long jump address fails, ip is
\* advanced by 4, the handler does not run, and destination, flags and
\* memory are unchanged.
C39_FailedFetch ==
  /\ (StrictDebugStep /\ ~Readable(Pre.mem, PreIp)) => FetchRefused(PreIp, 1)
  /\ (StrictDebugStep /\ Readable(Pre.mem, PreIp) /\ Opcode \in FormOpcodes
        /\ instruction_supported(Opcode, cfg.level) /\ FormWords = 2
        /\ ~Readable(Pre.mem, ImmAddress)) => FetchRefused(ImmAddress, 2)

\* the fetch at ip = 0xffff was refused and ip wrapped to 1
C39_Witness ==
  /\ StrictDebugStep
  /\ PreIp = WordModulus - 1
  /\ reg[7] = 1
  /\ res = breakpoint_result
  /\ message = AddressDiagnostic("read", WordModulus - 1)

\* the address word of a long jump in the last word of the memory could
\* not be fetched and ip is four bytes on
C39_WitnessLong ==
  /\ StrictDebugStep
  /\ Opcode = op_jump
  /\ JumpLong
  /\ PreIp = MemSize - 2
  /\ reg[7] = MemSize + 2
  /\ message = AddressDiagnostic("read", MemSize)

\* every instruction execute(N) ran returned keep_going, and execute(M)
\* was called after it, with N, M >= 1
BudgetsSplit ==
  /\ Len(trace) = 2
  /\ trace[1].act = "steps"
  /\ trace[2].act = "steps"
  /\ trace[1].arg >= 1
  /\ trace[2].arg >= 1
  /\ trace[1].exc = "none"
  /\ \A k \in 1 .. Len(trace[1].log) : trace[1].log[k].keep_going

\* run r of execute(N + M) from the first state leaves what the two calls
\* left: registers, status, memory, the halted flag and the sum of the
\* step counts, or the same exception
SameAsWhole(r) ==
  /\ r.c.reg = reg
  /\ r.c.status = status
  /\ r.c.mem = mem
  /\ r.exc = exc
  /\ exc = "none" =>
       /\ r.out[1] = trace[2].out[1]
       /\ r.out[2] = trace[1].out[2] + trace[2].out[2]

\* C40: step budgets compose: for N, M >= 1, if none of the first N
\* instructions returns keep_going = false, execute(N) followed by
\* execute(M) leaves the same registers, status and memory and reports
\* the same halted flag as execute(N + M), and the step counts add up.
C40_BudgetsCompose ==
  (BudgetsSplit /\ exc # "undefined") =>
    LET whole == execute_steps(cfg, trace[1].pre, trace[1].arg + trace[2].arg)
    IN /\ \E r \in whole : SameAsWhole(r)
       /\ cfg.strict => \A r \in whole : SameAsWhole(r)

\* three steps, then two more and the halt within a budget of three
C40_Witness ==
  /\ BudgetsSplit
  /\ trace[1].arg = 3
  /\ trace[1].out = <<FALSE, 3>>
  /\ trace[2].arg = 3
  /\ trace[2].out = <<TRUE, 2>>
  /\ exc = "none"

====
